---- MODULE Spec2Model ----
(***************************************************************************)
(* pushcart-deploy: the configuration schema (configuration.py), the file  *)
(* loader (get_config_from_file) and the metadata assembly run             *)
(* (metadata.py), modelled as state machines.                              *)
(*                                                                         *)
(* Python values are tagged records; strings are sequences of character    *)
(* codes so that strip(), upper() and lower() are computed, not assumed.   *)
(* A dict is a record whose missing keys hold Absent.                      *)
(***************************************************************************)
EXTENDS Integers, Sequences, FiniteSets, TLC

VARIABLES
    cand,       \* schema: the raw keyword arguments handed to a constructor
    built,      \* schema: the outcome of the construction (NotBuilt before it)
    tlist0,     \* enrichment: the transformations list as passed in
    csv,        \* enrichment: the data rows of the CSV file the entries reference
    enr,        \* enrichment: the list being mutated and the position of the loops
    file,       \* loader: the file at settings_path (it can vanish under the call)
    ld,         \* loader: the position and the outcome of get_config_from_file
    files,      \* run: the pipeline files the glob finds under config_dir
    run,        \* run: the position and the data of create_backend_objects
    sobj,       \* sanitizer: the object and the drop_empty flag of the call
    san,        \* sanitizer: the function called and what it returned or raised
    tasks,      \* gather: the discovered files, the tasks of the two gathers and their results
    gen,        \* csv rows: the file, its handle, the generator of get_transformations_from_csv and its consumer
    grp         \* grouping: the maps handed to _group_pipeline_configs and what it returned

schemaVars == <<cand, built>>

enrichVars == <<tlist0, csv, enr>>

loaderVars == <<file, ld>>

runVars == <<files, run>>

sanitizeVars == <<sobj, san>>

gatherVars == <<tasks>>

csvVars == <<gen>>

groupVars == <<grp>>

\* What an action of one part leaves alone: the other parts.
notSchema == <<enrichVars, loaderVars, runVars, sanitizeVars, gatherVars, csvVars, groupVars>>

notEnrich == <<schemaVars, loaderVars, runVars, sanitizeVars, gatherVars, csvVars, groupVars>>

notLoader == <<schemaVars, enrichVars, runVars, sanitizeVars, gatherVars, csvVars, groupVars>>

notRun == <<schemaVars, enrichVars, loaderVars, sanitizeVars, gatherVars, csvVars, groupVars>>

notSanitize == <<schemaVars, enrichVars, loaderVars, runVars, gatherVars, csvVars, groupVars>>

notGather == <<schemaVars, enrichVars, loaderVars, runVars, sanitizeVars, csvVars, groupVars>>

notCsv == <<schemaVars, enrichVars, loaderVars, runVars, sanitizeVars, gatherVars, groupVars>>

notGroup == <<schemaVars, enrichVars, loaderVars, runVars, sanitizeVars, gatherVars, csvVars>>

vars == <<cand, built, tlist0, csv, enr, file, ld, files, run, sobj, san, tasks, gen, grp>>

-----------------------------------------------------------------------------
(* Bounds of the model. *)

MaxValidations == 2
MaxStage == 2
MaxEntries == 3
MaxRows == 2
MaxList == 6
MaxFiles == 2
MaxItems == 2
MaxConfigs == 3

-----------------------------------------------------------------------------
(* Python values. *)

None == [t |-> "none"]
Absent == [t |-> "absent"]
PyInt(n) == [t |-> "int", v |-> n]
PyStr(s) == [t |-> "str", v |-> s]
PyList(s) == [t |-> "list", v |-> s]
PyDict(d) == [t |-> "dict", v |-> d]
PyBool(b) == [t |-> "bool", v |-> b]
\* A dict with keys of any type: its items, in insertion order.
PyMap(items) == [t |-> "map", v |-> items]
Item(k, v) == [k |-> k, v |-> v]

\* bool(x), as `if x`, any() and all() evaluate it.
Truthy(x) ==
    CASE x.t = "none" -> FALSE
      [] x.t = "absent" -> FALSE
      [] x.t = "int" -> x.v # 0
      [] x.t = "str" -> Len(x.v) > 0
      [] x.t = "list" -> Len(x.v) > 0
      [] x.t = "dict" -> TRUE
      [] x.t = "bool" -> x.v
      [] x.t = "map" -> Len(x.v) > 0

\* dict.get(key): a missing key reads as None.
Get(d, k) == IF d[k] = Absent THEN None ELSE d[k]

\* str.strip(), str.upper(), str.lower() and the order of str, on character codes.
IsSpace(c) == c \in {9, 10, 11, 12, 13, 32}

RECURSIVE LStrip(_)
LStrip(s) == IF s # <<>> /\ IsSpace(Head(s)) THEN LStrip(Tail(s)) ELSE s

RECURSIVE RStrip(_)
RStrip(s) ==
    IF s # <<>> /\ IsSpace(s[Len(s)]) THEN RStrip(SubSeq(s, 1, Len(s) - 1)) ELSE s

Strip(s) == RStrip(LStrip(s))

ToUpper(s) == [i \in DOMAIN s |-> IF s[i] \in 97..122 THEN s[i] - 32 ELSE s[i]]

ToLower(s) == [i \in DOMAIN s |-> IF s[i] \in 65..90 THEN s[i] + 32 ELSE s[i]]

RECURSIVE StrLess(_, _)
StrLess(a, b) ==
    IF b = <<>> THEN FALSE
    ELSE IF a = <<>> THEN TRUE
    ELSE IF Head(a) # Head(b) THEN Head(a) < Head(b)
    ELSE StrLess(Tail(a), Tail(b))

\* The string literals of the schema.
sLOG == <<76, 79, 71>>
sDROP == <<68, 82, 79, 80>>
sFAIL == <<70, 65, 73, 76>>
sENHANCED == <<69, 78, 72, 65, 78, 67, 69, 68>>
sLEGACY == <<76, 69, 71, 65, 67, 89>>
sdefault == <<100, 101, 102, 97, 117, 108, 116>>
smaintenance == <<109, 97, 105, 110, 116, 101, 110, 97, 110, 99, 101>>
sappend == <<97, 112, 112, 101, 110, 100>>
supsert == <<117, 112, 115, 101, 114, 116>>

-----------------------------------------------------------------------------
(* Outcomes of a pydantic (v1) dataclass construction. *)

NotBuilt == [ok |-> FALSE, exc |-> "pending", errors |-> {}, value |-> None]

\* The object was constructed.
Built(v) == [ok |-> TRUE, exc |-> "none", errors |-> {}, value |-> v]

\* pydantic.ValidationError carrying the collected errors.
Invalid(errs) == [ok |-> FALSE, exc |-> "ValidationError", errors |-> errs, value |-> None]

\* An exception pydantic does not catch (anything but ValueError, TypeError,
\* AssertionError) leaves the constructor as it is.
Raised(e) == [ok |-> FALSE, exc |-> e, errors |-> {}, value |-> None]

\* constr(min_length=1, strict=True)
IsNonEmptyStr(x) == x.t = "str" /\ Len(x.v) >= 1

\* A required field: missing, or failing its constraint (ok: the constraint
\* evaluated on the field).
Required(raw, f, ok) ==
    IF raw[f] = Absent THEN {"field required: " \o f}
    ELSE IF ok THEN {}
    ELSE {"invalid: " \o f}

\* A field declared `T | None = None`: None and missing are accepted.
Optional(raw, f, ok) ==
    IF raw[f] \in {Absent, None} \/ ok THEN {} ELSE {"invalid: " \o f}

-----------------------------------------------------------------------------
(* Validation, and the grouping of a validations list by rule. *)

\* constr(to_upper=True, strict=True, regex=r"\A(LOG|DROP|FAIL)\Z")
IsAction(x) == x.t = "str" /\ ToUpper(x.v) \in {sLOG, sDROP, sFAIL}

Validation(raw) ==
    LET errs == Required(raw, "validation_rule", IsNonEmptyStr(raw["validation_rule"]))
                \cup Required(raw, "validation_action", IsAction(raw["validation_action"]))
    IN  IF errs = {}
        THEN Built([validation_rule |-> raw.validation_rule.v,
                    validation_action |-> ToUpper(raw.validation_action.v)])
        ELSE Invalid(errs)

\* A variant that forgets strip(): rules differing in surrounding blanks
\* fall into different groups.
RuleKeyUnstripped(v) == v.validation_rule

\* The sort and group key: str(v["validation_rule"]).strip()
RuleKey(v) == Strip(v.validation_rule)

\* sorted(validations, key=...): stable, ascending.
RECURSIVE SortedByRule(_)
SortedByRule(vs) ==
    IF vs = <<>> THEN <<>>
    ELSE LET last == vs[Len(vs)]
             init == SortedByRule(SubSeq(vs, 1, Len(vs) - 1))
             n == Cardinality({i \in DOMAIN init :
                                  ~StrLess(RuleKey(last), RuleKey(init[i]))})
         IN  SubSeq(init, 1, n) \o <<last>> \o SubSeq(init, n + 1, Len(init))

\* itertools.groupby: one group per run of consecutive equal keys.
RECURSIVE GroupByRule(_)
GroupByRule(s) ==
    IF s = <<>> THEN <<>>
    ELSE LET k == RuleKey(Head(s))
             n == CHOOSE m \in 1..Len(s) :
                     /\ \A i \in 1..m : RuleKey(s[i]) = k
                     /\ m = Len(s) \/ RuleKey(s[m + 1]) # k
         IN  <<[k |-> k, v |-> [i \in 1..n |-> s[i].validation_action]]>>
             \o GroupByRule(SubSeq(s, n + 1, Len(s)))

\* The dict {rule: [actions]} restricted to the rules listed more than once.
_get_multiple_validations_with_same_rule(validations) ==
    LET g == GroupByRule(SortedByRule(validations))
        validation_groups ==
            {g[i] : i \in {j \in DOMAIN g : \A l \in DOMAIN g : l > j => g[l].k # g[j].k}}
    IN  {e \in validation_groups : Len(e.v) > 1}

\* @validator("validations") of Source, Transformation and Destination.
check_multiple_validations_with_same_rule(value) ==
    IF value # <<>> /\ _get_multiple_validations_with_same_rule(value) # {}
    THEN {"Different actions for the same validation"}
    ELSE {}

\* validations: list[Validation] | None = Field(default_factory=list): the items
\* are parsed first; the class validator runs only on a list that parsed.
ValidationsField(raw) ==
    LET x == raw.validations
    IN  IF x = Absent THEN [errors |-> {}, value |-> <<>>]
        ELSE IF x.t # "list" THEN [errors |-> {"invalid: validations"}, value |-> <<>>]
        ELSE LET items == [i \in DOMAIN x.v |-> Validation(x.v[i])]
             IN  IF \E i \in DOMAIN items : ~items[i].ok
                 THEN [errors |-> UNION {items[i].errors : i \in DOMAIN items},
                       value |-> <<>>]
                 ELSE LET vals == [i \in DOMAIN items |-> items[i].value]
                      IN  [errors |-> check_multiple_validations_with_same_rule(vals),
                           value |-> vals]

\* What a pre root validator of a pydantic dataclass receives: the arguments
\* given, plus the fields declared `= None`; a field declared with
\* Field(default_factory=...) and not given is missing from the dict.
InputData(raw, noneDefaults) ==
    [f \in DOMAIN raw |-> IF raw[f] = Absent /\ f \in noneDefaults THEN None ELSE raw[f]]

-----------------------------------------------------------------------------
(* Source *)

Source(raw) ==
    LET vf == ValidationsField(raw)
        errs == Required(raw, "origin", IsNonEmptyStr(raw["origin"]))
                \cup Required(raw, "datatype", IsNonEmptyStr(raw["datatype"]))
                \cup Required(raw, "target", IsNonEmptyStr(raw["target"]))
                \cup vf.errors
    IN  IF errs = {}
        THEN Built([origin |-> raw.origin.v, datatype |-> raw.datatype.v,
                    target |-> raw.target.v, validations |-> vf.value])
        ELSE Invalid(errs)

-----------------------------------------------------------------------------
(* Transformation *)

\* conint(ge=1)
IsColumnOrder(x) == x.t = "int" /\ x.v >= 1

\* The error the pre root validator raises, if any.
\* A keyword argument that the caller may not have given at all.
Arg(raw, f) == IF f \in DOMAIN raw THEN raw[f] ELSE Absent

\* The value a field declared `= None` takes from the arguments.
ArgOrNone(raw, f) == IF Arg(raw, f) = Absent THEN None ELSE Arg(raw, f)

\* constr(strict=True)
IsStr(x) == x.t = "str"

\* regex \A(string|int|double|date|timestamp|boolean|struct|array|map)\Z
ColumnTypes ==
    {<<115, 116, 114, 105, 110, 103>>,
     <<105, 110, 116>>,
     <<100, 111, 117, 98, 108, 101>>,
     <<100, 97, 116, 101>>,
     <<116, 105, 109, 101, 115, 116, 97, 109, 112>>,
     <<98, 111, 111, 108, 101, 97, 110>>,
     <<115, 116, 114, 117, 99, 116>>,
     <<97, 114, 114, 97, 121>>,
     <<109, 97, 112>>}

IsColumnType(x) == x.t = "str" /\ x.v \in ColumnTypes

\* The optional string fields that describe one column.
ColumnFields == {"source_column_name", "dest_column_name", "transform_function", "default_value"}

ColumnTypeFields == {"source_column_type", "dest_column_type"}

\* The errors of the per-column fields: each is `constr | None = None`.
ColumnFieldErrors(raw) ==
    {"invalid: " \o f : f \in {g \in ColumnFields :
                                  Arg(raw, g) \notin {Absent, None} /\ ~IsStr(Arg(raw, g))}}
    \cup {"invalid: " \o f : f \in {g \in ColumnTypeFields :
                                  Arg(raw, g) \notin {Absent, None}
                                  /\ ~IsColumnType(Arg(raw, g))}}

\* A variant that only asks for at least one of the two.
AtLeastOneOfConfigOrSqlQuery(values) ==
    IF ~(Truthy(Get(values, "column_order")) \/ Truthy(Get(values, "sql_query")))
    THEN {"No transformation defined"}
    ELSE {}

check_only_one_of_config_or_sql_query_defined(values) ==
    IF ~(Truthy(Get(values, "column_order")) \/ Truthy(Get(values, "sql_query")))
    THEN {"No transformation defined"}
    ELSE IF Truthy(Get(values, "column_order")) /\ Truthy(Get(values, "sql_query"))
    THEN {"Only one of config or sql_query allowed"}
    ELSE {}

Transformation(raw) ==
    LET values == InputData(raw, {"column_order", "sql_query"})
        pre == check_only_one_of_config_or_sql_query_defined(values)
        vf == ValidationsField(raw)
        errs == Required(raw, "origin", IsNonEmptyStr(raw["origin"]))
                \cup Required(raw, "target", IsNonEmptyStr(raw["target"]))
                \cup Optional(raw, "column_order", IsColumnOrder(raw["column_order"]))
                \cup ColumnFieldErrors(raw)
                \cup Optional(raw, "sql_query", IsNonEmptyStr(raw["sql_query"]))
                \cup vf.errors
    IN  IF pre # {} THEN Invalid(pre)
        ELSE IF errs = {}
        THEN Built([origin |-> raw.origin.v, target |-> raw.target.v,
                    column_order |-> values.column_order,
                    source_column_name |-> ArgOrNone(raw, "source_column_name"),
                    source_column_type |-> ArgOrNone(raw, "source_column_type"),
                    dest_column_name |-> ArgOrNone(raw, "dest_column_name"),
                    dest_column_type |-> ArgOrNone(raw, "dest_column_type"),
                    transform_function |-> ArgOrNone(raw, "transform_function"),
                    default_value |-> ArgOrNone(raw, "default_value"),
                    sql_query |-> values.sql_query,
                    validations |-> vf.value])
        ELSE Invalid(errs)

-----------------------------------------------------------------------------
(* Destination *)

\* constr(min_length=1, strict=True, regex=r"^(append|upsert)$")
IsMode(x) == x.t = "str" /\ x.v \in {sappend, supsert}

\* list[constr(min_length=1, strict=True)]
IsKeys(x) == x.t = "list" /\ \A i \in DOMAIN x.v : IsNonEmptyStr(x.v[i])

\* "pass", "ValueError" or "KeyError": all(values[v] for v in [...]) indexes
\* the dict, and stops at the first falsy member.
\* A variant that asks for keys only.
UpsertRequiresKeysOnly(values) ==
    IF Get(values, "mode") # PyStr(supsert) THEN "pass"
    ELSE IF values["keys"] = Absent THEN "KeyError"
    ELSE IF ~Truthy(values["keys"]) THEN "ValueError"
    ELSE "pass"

check_keys_and_sequence_for_upsert(values) ==
    IF Get(values, "mode") # PyStr(supsert) THEN "pass"
    ELSE IF values["keys"] = Absent THEN "KeyError"
    ELSE IF ~Truthy(values["keys"]) THEN "ValueError"
    ELSE IF values["sequence_by"] = Absent THEN "KeyError"
    ELSE IF ~Truthy(values["sequence_by"]) THEN "ValueError"
    ELSE "pass"

Destination(raw) ==
    LET values == InputData(raw, {"sequence_by"})
        pre == check_keys_and_sequence_for_upsert(values)
        vf == ValidationsField(raw)
        errs == Required(raw, "origin", IsNonEmptyStr(raw["origin"]))
                \cup Required(raw, "target", IsNonEmptyStr(raw["target"]))
                \cup Required(raw, "mode", IsMode(raw["mode"]))
                \cup Optional(raw, "keys", IsKeys(raw["keys"]))
                \cup Optional(raw, "sequence_by", IsNonEmptyStr(raw["sequence_by"]))
                \cup vf.errors
    IN  IF pre = "KeyError" THEN Raised("KeyError")
        ELSE IF pre = "ValueError"
        THEN Invalid({"Mode upsert requires that keys and sequence_by are defined"})
        ELSE IF errs = {}
        THEN Built([origin |-> raw.origin.v, target |-> raw.target.v,
                    mode |-> raw.mode.v,
                    keys |-> IF raw["keys"] = Absent THEN PyList(<<>>) ELSE raw["keys"],
                    sequence_by |-> values.sequence_by,
                    validations |-> vf.value])
        ELSE Invalid(errs)

-----------------------------------------------------------------------------
(* Cluster *)

IsInt(x) == x.t = "int"

\* constr(to_upper=True, strict=True, regex=r"\A(ENHANCED|LEGACY)\Z")
IsAutoscaleMode(x) == x.t = "str" /\ ToUpper(x.v) \in {sENHANCED, sLEGACY}

ClusterAutoscale(raw) ==
    LET errs == Required(raw, "min_workers", IsInt(raw["min_workers"]))
                \cup Required(raw, "max_workers", IsInt(raw["max_workers"]))
                \cup Required(raw, "mode", IsAutoscaleMode(raw["mode"]))
    IN  IF errs = {}
        THEN Built([min_workers |-> raw.min_workers.v, max_workers |-> raw.max_workers.v,
                    mode |-> ToUpper(raw.mode.v)])
        ELSE Invalid(errs)

\* autoscale: ClusterAutoscale | None
IsAutoscale(x) == x.t = "dict" /\ ClusterAutoscale(x.v).ok

\* constr(to_lower=True, strict=True, regex=r"\A(default|maintenance)\Z")
IsLabel(x) == x.t = "str" /\ ToLower(x.v) \in {sdefault, smaintenance}

\* The error the pre root validator raises, if any: any() and all() over the
\* truth values of values["autoscale"] and values["num_workers"].
check_only_one_of_autoscale_or_num_workers_defined(values) ==
    IF ~(Truthy(values["autoscale"]) \/ Truthy(values["num_workers"]))
    THEN {"No cluster defined"}
    ELSE IF Truthy(values["autoscale"]) /\ Truthy(values["num_workers"])
    THEN {"Only one of autoscale or num_workers allowed"}
    ELSE {}

Cluster(raw) ==
    LET values == InputData(raw, {"num_workers", "autoscale"})
        pre == check_only_one_of_autoscale_or_num_workers_defined(values)
        errs == Required(raw, "label", IsLabel(raw["label"]))
                \cup Required(raw, "node_type_id", IsNonEmptyStr(raw["node_type_id"]))
                \cup Optional(raw, "num_workers", IsInt(raw["num_workers"]))
                \cup Optional(raw, "autoscale", IsAutoscale(raw["autoscale"]))
    IN  IF pre # {} THEN Invalid(pre)
        ELSE IF errs = {}
        THEN Built([label |-> ToLower(raw.label.v), node_type_id |-> raw.node_type_id.v,
                    num_workers |-> values.num_workers,
                    autoscale |-> IF values.autoscale = None THEN None
                                  ELSE ClusterAutoscale(values.autoscale.v).value])
        ELSE Invalid(errs)

-----------------------------------------------------------------------------
(* Configuration *)

StageNames == {"sources", "transformations", "destinations"}

\* The error the first pre root validator raises, if any: `for v in values`
\* runs over the keys the dict holds.
check_at_least_one_stage_defined(values) ==
    IF \E v \in DOMAIN values : values[v] # Absent /\ v \in StageNames
    THEN {}
    ELSE {"No stage definition found"}

\* values.get(stage, []) as a sequence of raw entries.
StageOf(values, stage) == IF values[stage] = Absent THEN <<>> ELSE values[stage].v

\* list.count(value)
Count(s, x) == Cardinality({i \in DOMAIN s : s[i] = x})

\* SelectSeq with the test inlined: the entries that carry a truthy sql_query.
WithSqlQuery(s) ==
    LET Test(e) == Truthy(Get(e, "sql_query")) IN SelectSeq(s, Test)

\* A variant that forgets the `if transformation.get("sql_query")` filter.
UniqueOverAllTransformations(values) ==
    LET entries == StageOf(values, "sources") \o StageOf(values, "transformations")
                   \o StageOf(values, "destinations")
        target_values == [i \in DOMAIN entries |-> entries[i]["target"]]
    IN  IF \E i \in DOMAIN target_values : target_values[i] = Absent THEN "KeyError"
        ELSE IF \E i, j \in DOMAIN target_values :
                    i # j /\ target_values[i] = target_values[j] THEN "ValueError"
        ELSE "pass"

\* "pass", "ValueError" or "KeyError" (an entry without the key "target").
check_all_dlt_target_objects_are_unique(values) ==
    LET sources == StageOf(values, "sources")
        transformations == WithSqlQuery(StageOf(values, "transformations"))
        destinations == StageOf(values, "destinations")
        entries == sources \o transformations \o destinations
        target_values == [i \in DOMAIN entries |-> entries[i]["target"]]
        duplicates == {value \in {target_values[i] : i \in DOMAIN target_values} :
                          Count(target_values, value) > 1}
    IN  IF \E i \in DOMAIN target_values : target_values[i] = Absent THEN "KeyError"
        ELSE IF duplicates # {} THEN "ValueError"
        ELSE "pass"

\* A stage field list[E] | None = Field(default_factory=list): every entry is
\* constructed and the errors of all entries are collected; an exception that
\* is no validation error leaves the constructor of the entry and of the list.
StageField(items) ==
    [errors |-> UNION {items[i].errors : i \in DOMAIN items},
     raised |-> \E i \in DOMAIN items : items[i].exc = "KeyError",
     value |-> [i \in DOMAIN items |-> items[i].value]]

Configuration(raw) ==
    LET values == InputData(raw, {"clusters"})
        pre1 == check_at_least_one_stage_defined(values)
        pre2 == check_all_dlt_target_objects_are_unique(values)
        sources == StageOf(raw, "sources")
        transformations == StageOf(raw, "transformations")
        destinations == StageOf(raw, "destinations")
        src == StageField([i \in DOMAIN sources |-> Source(sources[i])])
        trf == StageField([i \in DOMAIN transformations |->
                              Transformation(transformations[i])])
        dst == StageField([i \in DOMAIN destinations |-> Destination(destinations[i])])
        errs == src.errors \cup trf.errors \cup dst.errors
    IN  IF pre1 # {} THEN Invalid(pre1)
        ELSE IF pre2 = "KeyError" THEN Raised("KeyError")
        ELSE IF pre2 = "ValueError" THEN Invalid({"Duplicate 'target' values found"})
        ELSE IF src.raised \/ trf.raised \/ dst.raised THEN Raised("KeyError")
        ELSE IF errs = {}
        THEN Built([clusters |-> None, sources |-> src.value,
                    transformations |-> trf.value, destinations |-> dst.value])
        ELSE Invalid(errs)

-----------------------------------------------------------------------------
(* The inputs of the schema: raw keyword arguments of each constructor. *)

SeqsUpTo(S, n) == UNION {[1..k -> S] : k \in 0..n}

sa == <<97>>
sb == <<98>>
st1 == <<116, 49>>
st2 == <<116, 50>>
sq == <<83, 69, 76, 69, 67, 84>>

\* "a" and " a " are one rule after strip(); "log" is LOG after upper().
Rules == {sa, <<32>> \o sa \o <<32>>, sb}
Actions == {sLOG, sDROP, <<108, 111, 103>>}

ValidationRaws ==
    {[validation_rule |-> PyStr(r), validation_action |-> PyStr(a)] :
        r \in Rules, a \in Actions}

ValidationLists ==
    {Absent} \cup {PyList(s) : s \in SeqsUpTo(ValidationRaws, MaxValidations)}

SourceRaws ==
    {[origin |-> o, datatype |-> PyStr(sa), target |-> PyStr(st1), validations |-> v] :
        o \in {PyStr(sa), PyStr(<<>>)}, v \in ValidationLists}

TransformationRaws ==
    {[origin |-> PyStr(sa), target |-> PyStr(st1), column_order |-> c,
      sql_query |-> q, validations |-> v] :
        c \in {Absent, PyInt(0), PyInt(1)}, q \in {Absent, PyStr(<<>>), PyStr(sq)},
        v \in ValidationLists}
    \cup {[origin |-> o, target |-> PyStr(st1), column_order |-> c,
           source_column_name |-> PyStr(sa), dest_column_name |-> PyStr(sb),
           source_column_type |-> ty, sql_query |-> q, validations |-> Absent] :
            o \in {PyStr(sa), PyStr(<<>>)}, c \in {Absent, PyInt(1)},
            q \in {Absent, PyStr(sq)}, ty \in {Absent, PyStr(sa), PyStr(<<105, 110, 116>>)}}

DestinationRaws ==
    {[origin |-> PyStr(sa), target |-> PyStr(st1), mode |-> PyStr(m), keys |-> k,
      sequence_by |-> sb_, validations |-> v] :
        m \in {sappend, supsert}, k \in {Absent, PyList(<<>>), PyList(<<PyStr(sa)>>)},
        sb_ \in {Absent, PyStr(sb)}, v \in ValidationLists}

AutoscaleRaw ==
    PyDict([min_workers |-> PyInt(1), max_workers |-> PyInt(2), mode |-> PyStr(sLEGACY)])

ClusterRaws ==
    {[label |-> PyStr(l), node_type_id |-> PyStr(sa), num_workers |-> n, autoscale |-> a] :
        l \in {sdefault, ToUpper(smaintenance)},
        n \in {Absent} \cup {PyInt(i) : i \in -1..2},
        a \in {Absent, AutoscaleRaw}}

\* Stage entries of a Configuration: well-formed, with one of two targets.
SourceEntries ==
    {[origin |-> PyStr(sa), datatype |-> PyStr(sa), target |-> PyStr(t),
      validations |-> Absent] : t \in {st1, st2}}

TransformationEntries ==
    {e \in {[origin |-> PyStr(sa), target |-> PyStr(t), column_order |-> c,
             sql_query |-> q, validations |-> Absent] :
               t \in {st1, st2}, c \in {Absent, PyInt(1)}, q \in {Absent, PyStr(sq)}} :
        (e.column_order = Absent) # (e.sql_query = Absent)}

DestinationEntries ==
    {[origin |-> PyStr(sa), target |-> PyStr(t), mode |-> PyStr(sappend), keys |-> Absent,
      sequence_by |-> Absent, validations |-> Absent] : t \in {st1, st2}}

StageLists(entries) == {Absent} \cup {PyList(s) : s \in SeqsUpTo(entries, MaxStage)}

ConfigurationRaws ==
    {[clusters |-> Absent, sources |-> s, transformations |-> t, destinations |-> d] :
        s \in StageLists(SourceEntries), t \in StageLists(TransformationEntries),
        d \in StageLists(DestinationEntries)}

SchemaInputs ==
    {[kind |-> "Source", raw |-> r] : r \in SourceRaws}
    \cup {[kind |-> "Transformation", raw |-> r] : r \in TransformationRaws}
    \cup {[kind |-> "Destination", raw |-> r] : r \in DestinationRaws}
    \cup {[kind |-> "Cluster", raw |-> r] : r \in ClusterRaws}
    \cup {[kind |-> "Configuration", raw |-> r] : r \in ConfigurationRaws}

-----------------------------------------------------------------------------
(* Metadata._enrich_transformations_config: a for loop over the list that    *)
(* appends the rows of a referenced CSV file to the list and removes the     *)
(* referencing entry from it, while iterating.                               *)

\* str.isdigit() and int() on character codes.
IsDigit(s) == s # <<>> /\ \A i \in DOMAIN s : s[i] \in 48..57

RECURSIVE ParseInt(_)
ParseInt(s) ==
    IF s = <<>> THEN 0 ELSE 10 * ParseInt(SubSeq(s, 1, Len(s) - 1)) + (s[Len(s)] - 48)

\* int(row["column_order"]) if str(row["column_order"]).isdigit() else None
\* (a short row holds None, and str(None) is no digit string).
ColumnOrderOf(x) == IF x.t = "str" /\ IsDigit(x.v) THEN PyInt(ParseInt(x.v)) ELSE None

\* The exception the body of the row loop raises before it appends, if any:
\* row["column_order"], transformation_config["origin"] and ["into"] index
\* their dict.
RowError(row, config) ==
    IF row.column_order = Absent \/ config.origin = Absent \/ config.into = Absent
    THEN "KeyError"
    ELSE "none"

\* The row as appended: column_order parsed, origin and into taken from the
\* referencing entry, a validation_rule/validation_action pair folded into a
\* one-element validations list and deleted from the row.
ExpandRow(row, config) ==
    LET r == [row EXCEPT !.column_order = ColumnOrderOf(row.column_order),
                         !.origin = config.origin,
                         !.into = config.into]
    IN  IF Truthy(Get(row, "validation_rule")) /\ Truthy(Get(row, "validation_action"))
        THEN [r EXCEPT !.validations =
                          PyList(<<[validation_rule |-> row.validation_rule,
                                    validation_action |-> row.validation_action]>>),
                       !.validation_rule = Absent,
                       !.validation_action = Absent]
        ELSE r

\* A variant of list.remove that leaves the list as it is.
ListKeep(l, x) == l

\* list.remove(x): the first element equal to x is removed.
ListRemove(l, x) ==
    LET k == CHOOSE i \in DOMAIN l : l[i] = x /\ \A j \in 1..(i - 1) : l[j] # x
    IN  SubSeq(l, 1, k - 1) \o SubSeq(l, k + 1, Len(l))

\* if csv_path := transformation_config.get("config")
References(e) == Truthy(Get(e, "config"))

\* The loop state when the function is entered: idx counts the elements the
\* list iterator has handed out, rowi the rows the CSV iterator has.
EnterEnrich(l) == [list |-> l, idx |-> 0, cur |-> None, rowi |-> 0, pc |-> "for"]

\* One step of the function from loop state e, rows being the data rows of the
\* referenced file.
\*   "for":  the list iterator hands out list[idx] or ends the loop;
\*   "rows": the row iterator hands out a row, which is expanded and appended,
\*           or ends, and the referencing entry is removed (list.remove raises
\*           ValueError when the list holds no element equal to it).
EnrichStep(e, rows) ==
    IF e.pc = "for"
    THEN IF e.idx >= Len(e.list)
         THEN [e EXCEPT !.pc = "done"]
         ELSE LET item == e.list[e.idx + 1]
              IN  [e EXCEPT !.idx = e.idx + 1, !.cur = item, !.rowi = 0,
                            !.pc = IF References(item) THEN "rows" ELSE "for"]
    ELSE IF e.rowi >= Len(rows)
         THEN IF \A i \in DOMAIN e.list : e.list[i] # e.cur
              THEN [e EXCEPT !.pc = "ValueError"]
              ELSE [e EXCEPT !.list = ListRemove(e.list, e.cur), !.pc = "for"]
         ELSE LET row == rows[e.rowi + 1]
              IN  IF RowError(row, e.cur) # "none"
                  THEN [e EXCEPT !.pc = RowError(row, e.cur)]
                  ELSE [e EXCEPT !.list = Append(e.list, ExpandRow(row, e.cur)),
                                 !.rowi = e.rowi + 1]

\* The inputs: entries of a transformations list and rows of a CSV file.
scsv == <<99, 115, 118>>
so1 == <<111, 49>>
so2 == <<111, 50>>

Entry(origin, into, target, config, sql_query) ==
    [origin |-> origin, into |-> into, target |-> target, config |-> config,
     sql_query |-> sql_query, column_order |-> Absent, validation_rule |-> Absent,
     validation_action |-> Absent, validations |-> Absent]

\* A csv.DictReader row: every column of the header holds a string.
Row(column_order, rule, action, config) ==
    [origin |-> Absent, into |-> Absent, target |-> Absent, config |-> config,
     sql_query |-> Absent, column_order |-> column_order, validation_rule |-> rule,
     validation_action |-> action, validations |-> Absent]

EntrySet ==
    {Entry(PyStr(so1), PyStr(st1), PyStr(st1), PyStr(scsv), Absent),
     Entry(PyStr(so2), Absent, PyStr(st2), PyStr(scsv), Absent),
     Entry(PyStr(so1), Absent, PyStr(st1), Absent, PyStr(sq)),
     Entry(PyStr(so2), PyStr(st2), PyStr(st2), Absent, PyStr(sq))}

RowSet ==
    {Row(PyStr(<<49, 50>>), PyStr(<<>>), PyStr(<<>>), Absent),
     Row(PyStr(<<120>>), PyStr(sa), PyStr(sLOG), Absent),
     Row(PyStr(<<49>>), PyStr(<<>>), PyStr(<<>>), PyStr(scsv))}

EnrichIdle == tlist0 = <<>> /\ csv = <<>> /\ enr = EnterEnrich(<<>>)

EnrichInit ==
    /\ tlist0 \in SeqsUpTo(EntrySet, MaxEntries)
    /\ csv \in SeqsUpTo(RowSet, MaxRows)
    /\ enr = EnterEnrich(tlist0)

\* The for loop hands out the next entry; an entry without a config is passed
\* over, an entry with one starts the row loop.
EnrichVisit ==
    /\ enr.pc = "for" /\ enr.idx < Len(enr.list)
    /\ enr' = EnrichStep(enr, csv)
    /\ UNCHANGED <<tlist0, csv, notEnrich>>

\* A row is expanded and appended to the list being iterated.
EnrichRow ==
    /\ enr.pc = "rows" /\ enr.rowi < Len(csv)
    /\ RowError(csv[enr.rowi + 1], enr.cur) = "none"
    /\ Len(enr.list) < MaxList
    /\ enr' = EnrichStep(enr, csv)
    /\ UNCHANGED <<tlist0, csv, notEnrich>>

\* The expansion raises: the row has no column_order column, or the
\* referencing entry has no origin or no into.
EnrichRaise ==
    /\ enr.pc = "rows" /\ enr.rowi < Len(csv)
    /\ RowError(csv[enr.rowi + 1], enr.cur) # "none"
    /\ enr' = EnrichStep(enr, csv)
    /\ UNCHANGED <<tlist0, csv, notEnrich>>

\* The rows are exhausted: the referencing entry is removed from the list.
EnrichRemove ==
    /\ enr.pc = "rows" /\ enr.rowi >= Len(csv)
    /\ enr' = EnrichStep(enr, csv)
    /\ UNCHANGED <<tlist0, csv, notEnrich>>

\* The list iterator is exhausted: the function returns.
EnrichReturn ==
    /\ enr.pc = "for" /\ enr.idx >= Len(enr.list)
    /\ enr' = EnrichStep(enr, csv)
    /\ UNCHANGED <<tlist0, csv, notEnrich>>

EnrichNext ==
    \/ EnrichVisit
    \/ EnrichRow
    \/ EnrichRaise
    \/ EnrichRemove
    \/ EnrichReturn

-----------------------------------------------------------------------------
(* get_config_from_file: exists(), open, read, parse, inside one try whose   *)
(* except clauses turn the exceptions they name into the return value None.  *)

\* The classes an exception is an instance of (itself and its bases).
Bases(e) ==
    CASE e = "FileNotFoundError" -> {"FileNotFoundError", "OSError"}
      [] e = "PermissionError" -> {"PermissionError", "OSError"}
      [] e = "IsADirectoryError" -> {"IsADirectoryError", "OSError"}
      [] e = "JSONDecodeError" -> {"JSONDecodeError", "ValueError"}
      [] e = "TOMLDecodeError" -> {"TOMLDecodeError", "ValueError"}
      [] e = "UnicodeDecodeError" -> {"UnicodeDecodeError", "UnicodeError", "ValueError"}
      [] e = "YAMLError" -> {"YAMLError"}
      [] e = "TypeError" -> {"TypeError"}
      [] e = "RecursionError" -> {"RecursionError", "RuntimeError"}

\* The classes the except clauses of the function name.
Handled ==
    {"FileNotFoundError", "OSError", "JSONDecodeError", "YAMLError", "TOMLDecodeError",
     "TypeError", "RuntimeError"}

\* Some except clause matches the exception.
Caught(e) == Bases(e) \cap Handled # {}

\* loaders[ext]: the parser of a suffix, "none" (the defaultdict's None) for
\* any other suffix.
LoaderOf(ext) ==
    CASE ext = ".json" -> "json"
      [] ext \in {".yaml", ".yml"} -> "yaml"
      [] ext = ".toml" -> "toml"
      [] OTHER -> "none"

\* What calling the parser on the text does: "map" (the parsed dict) or the
\* exception raised. JSON text is YAML text too; text nested deeper than the
\* interpreter's recursion limit ends the JSON and YAML parsers with a
\* RecursionError.
Parse(loader, text) ==
    CASE loader = "none" -> "TypeError"
      [] loader = "json" ->
            IF text = "json" THEN "map"
            ELSE IF text = "deep" THEN "RecursionError" ELSE "JSONDecodeError"
      [] loader = "toml" -> IF text = "toml" THEN "map" ELSE "TOMLDecodeError"
      [] loader = "yaml" ->
            IF text \in {"json", "yaml"} THEN "map"
            ELSE IF text = "deep" THEN "RecursionError" ELSE "YAMLError"

Suffixes == {".json", ".toml", ".yaml", ".yml", ".csv"}

\* The file: missing, a directory, a file the process may not read, a file of
\* bytes that are no text in the default encoding, or a text file holding
\* JSON, TOML, YAML, deeply nested JSON, or text of no format.
FileStates ==
    {[kind |-> k, text |-> "-"] : k \in {"missing", "directory", "unreadable"}}
    \cup {[kind |-> "file", text |-> t] :
            t \in {"undecodable", "json", "toml", "yaml", "deep", "garbage"}}

EnterLoad(ext) == [ext |-> ext, pc |-> "exists", exc |-> "none", result |-> "pending"]

\* One step of the call on file f.
LoadStep(l, f) ==
    CASE l.pc = "exists" ->
            IF f.kind = "missing"
            THEN [l EXCEPT !.pc = "returned", !.result = "None"]
            ELSE [l EXCEPT !.pc = "open"]
      [] l.pc = "open" ->
            IF f.kind = "missing" THEN [l EXCEPT !.pc = "except", !.exc = "FileNotFoundError"]
            ELSE IF f.kind = "directory"
            THEN [l EXCEPT !.pc = "except", !.exc = "IsADirectoryError"]
            ELSE IF f.kind = "unreadable"
            THEN [l EXCEPT !.pc = "except", !.exc = "PermissionError"]
            ELSE [l EXCEPT !.pc = "read"]
      [] l.pc = "read" ->
            IF f.text = "undecodable"
            THEN [l EXCEPT !.pc = "except", !.exc = "UnicodeDecodeError"]
            ELSE [l EXCEPT !.pc = "parse"]
      [] l.pc = "parse" ->
            LET r == Parse(LoaderOf(l.ext), f.text)
            IN  IF r = "map" THEN [l EXCEPT !.pc = "returned", !.result = "map"]
                ELSE [l EXCEPT !.pc = "except", !.exc = r]
      [] l.pc = "except" ->
            IF Caught(l.exc) THEN [l EXCEPT !.pc = "returned", !.result = "None"]
            ELSE [l EXCEPT !.pc = "raised"]

LoaderIdle == file = [kind |-> "missing", text |-> "-"] /\ ld = EnterLoad(".json")

LoaderInit == file \in FileStates /\ ld \in {EnterLoad(ext) : ext \in Suffixes}

\* settings_path.exists()
LoadExists ==
    /\ ld.pc = "exists"
    /\ ld' = LoadStep(ld, file)
    /\ UNCHANGED <<file, notLoader>>

\* Another process removes the file after exists() and before it is opened.
FileVanishes ==
    /\ ld.pc = "open" /\ file.kind = "file"
    /\ file' = [kind |-> "missing", text |-> "-"]
    /\ UNCHANGED <<ld, notLoader>>

\* aiofiles.open(settings_path, "r")
LoadOpen ==
    /\ ld.pc = "open"
    /\ ld' = LoadStep(ld, file)
    /\ UNCHANGED <<file, notLoader>>

\* settings_file.read(): the bytes are decoded as text.
LoadRead ==
    /\ ld.pc = "read"
    /\ ld' = LoadStep(ld, file)
    /\ UNCHANGED <<file, notLoader>>

\* loaders[ext](contents)
LoadParse ==
    /\ ld.pc = "parse"
    /\ ld' = LoadStep(ld, file)
    /\ UNCHANGED <<file, notLoader>>

\* The except clauses: a named exception is logged and None is returned, any
\* other exception leaves the function.
LoadExcept ==
    /\ ld.pc = "except"
    /\ ld' = LoadStep(ld, file)
    /\ UNCHANGED <<file, notLoader>>

LoaderNext ==
    \/ LoadExists
    \/ FileVanishes
    \/ LoadOpen
    \/ LoadRead
    \/ LoadParse
    \/ LoadExcept

-----------------------------------------------------------------------------
(* Metadata.create_backend_objects: collect, enrich, group, validate, write. *)

ss1 == <<115, 49>>
sp1 == <<112, 49>>
sp2 == <<112, 50>>

\* The call run to its end on a file that does not change under it.
RECURSIVE RunLoader(_, _)
RunLoader(l, f) == IF l.pc \in {"returned", "raised"} THEN l ELSE RunLoader(LoadStep(l, f), f)

get_config_from_file(ext, f) == RunLoader(EnterLoad(ext), f)

\* file_path_obj.parent: config_dir/pipelines/<schema>/<pipeline>
ParentDir(pf) == pf.schema \o <<47>> \o pf.pipeline

\* str(parent.joinpath(config).resolve()) for a config that names no file
\* relative to the working directory.
ResolveConfig(pf, e) ==
    IF Truthy(Get(e, "config")) THEN [e EXCEPT !.config = PyStr(ParentDir(pf) \o <<47>> \o e.config.v)]
    ELSE e

\* The rest of the coroutine once get_config_from_file has ended in loader
\* state config. [exc, value]: the exception that leaves the coroutine, or its
\* return value, None or the parsed map with pipeline_name and
\* target_schema_name set and the config paths of its transformations
\* resolved.
Stamped(pf, config) ==
    IF config.pc = "raised" THEN [exc |-> config.exc, value |-> None]
    ELSE IF config.result = "None" THEN [exc |-> "none", value |-> None]
    ELSE [exc |-> "none",
          value |-> PyDict(
              [pf.content EXCEPT
                  !.pipeline_name = pf.pipeline,
                  !.target_schema_name = pf.schema,
                  !.transformations =
                      IF Truthy(pf.content.transformations)
                      THEN PyList([i \in DOMAIN pf.content.transformations.v |->
                                      ResolveConfig(pf, pf.content.transformations.v[i])])
                      ELSE pf.content.transformations])]

_load_pipeline_with_metadata(pf) == Stamped(pf, get_config_from_file(pf.ext, pf.state))

\* The data rows of the CSV file every pipeline directory holds.
CsvRows == <<Row(PyStr(<<49>>), PyStr(<<>>), PyStr(<<>>), Absent)>>

\* The rows read from a path, or the exception of opening it.
get_transformations_from_csv(path) ==
    IF \E pl \in {sp1, sp2} : path = PyStr(ss1 \o <<47>> \o pl \o <<47>> \o scsv)
    THEN [exc |-> "none", rows |-> CsvRows]
    ELSE [exc |-> "FileNotFoundError", rows |-> <<>>]

\* _enrich_transformations_config run to its end on a list whose referencing
\* entries all name the same file.
RECURSIVE RunEnrichLoop(_, _)
RunEnrichLoop(e, rows) ==
    IF e.pc \notin {"for", "rows"} THEN e ELSE RunEnrichLoop(EnrichStep(e, rows), rows)

_enrich_transformations_config(l) ==
    LET refs == {i \in DOMAIN l : References(l[i])}
        csvs == {get_transformations_from_csv(l[i].config) : i \in refs}
    IN  IF \E c \in csvs : c.exc # "none" THEN [exc |-> "FileNotFoundError", list |-> l]
        ELSE LET e == RunEnrichLoop(EnterEnrich(l), CsvRows)
             IN  [exc |-> IF e.pc = "done" THEN "none" ELSE e.pc, list |-> e.list]

\* _enrich_pipeline_configs: pipeline_config.items() of every element, then
\* the enrichment of every stage list (sources without params and
\* destinations stay as they are).
_enrich_pipeline_configs(pipeline_configs) ==
    IF \E i \in DOMAIN pipeline_configs : pipeline_configs[i] = None
    THEN [exc |-> "AttributeError", configs |-> pipeline_configs]
    ELSE LET Enriched(c) ==
                 IF c.v.transformations = Absent THEN [exc |-> "none", list |-> <<>>]
                 ELSE _enrich_transformations_config(c.v.transformations.v)
             excs == {Enriched(pipeline_configs[i]).exc : i \in DOMAIN pipeline_configs}
                     \ {"none"}
         IN  [exc |-> IF excs = {} THEN "none" ELSE CHOOSE x \in excs : TRUE,
              configs |-> [i \in DOMAIN pipeline_configs |->
                  IF pipeline_configs[i].v.transformations = Absent THEN pipeline_configs[i]
                  ELSE PyDict([pipeline_configs[i].v EXCEPT !.transformations =
                                  PyList(Enriched(pipeline_configs[i]).list)])]]

\* itemgetter("target_schema_name", "pipeline_name") and the order of tuples.
KeyOf(c) == <<c.v.target_schema_name, c.v.pipeline_name>>

KeyLess(a, b) == StrLess(a[1], b[1]) \/ (a[1] = b[1] /\ StrLess(a[2], b[2]))

\* The list handed on as it is.
Unsorted(cs) == cs

\* sorted(..., key=...): stable.
RECURSIVE SortedByKey(_)
SortedByKey(cs) ==
    IF cs = <<>> THEN <<>>
    ELSE LET k == CHOOSE i \in DOMAIN cs :
                     /\ \A j \in DOMAIN cs : ~KeyLess(KeyOf(cs[j]), KeyOf(cs[i]))
                     /\ \A j \in 1..(i - 1) : KeyLess(KeyOf(cs[i]), KeyOf(cs[j]))
         IN  <<cs[k]>> \o SortedByKey(SubSeq(cs, 1, k - 1) \o SubSeq(cs, k + 1, Len(cs)))

\* The values a group holds under one key, merged as the defaultdict(list)
\* does in the order of the group: a list extends the merged list, any other
\* value is appended to it. Absent: no map of the group holds the key.
RECURSIVE MergeStage(_, _)
MergeStage(group, stage) ==
    IF group = <<>> THEN Absent
    ELSE LET rest == MergeStage(Tail(group), stage)
             first == Head(group).v[stage]
             items == IF first.t = "list" THEN first.v ELSE <<first>>
         IN  IF first = Absent THEN rest
             ELSE IF rest = Absent THEN PyList(items)
             ELSE PyList(items \o rest.v)

\* groupby on the sorted list: one merged dict per run of equal keys.
RECURSIVE GroupSorted(_)
GroupSorted(cs) ==
    IF cs = <<>> THEN <<>>
    ELSE LET key == KeyOf(cs[1])
             n == CHOOSE m \in 1..Len(cs) :
                     /\ \A j \in 1..m : KeyOf(cs[j]) = key
                     /\ m = Len(cs) \/ KeyOf(cs[m + 1]) # key
             group == SubSeq(cs, 1, n)
         IN  <<[target_schema_name |-> key[1], pipeline_name |-> key[2],
                clusters |-> Absent,
                version |-> MergeStage(group, "version"),
                sources |-> MergeStage(group, "sources"),
                transformations |-> MergeStage(group, "transformations"),
                destinations |-> MergeStage(group, "destinations")]>>
             \o GroupSorted(SubSeq(cs, n + 1, Len(cs)))

_group_pipeline_configs(pipeline_configs) == GroupSorted(SortedByKey(pipeline_configs))

\* The stage of Configuration(**pipeline_config): the keys that are no field
\* of the dataclass are dropped.
ConfigurationOf(candidate) ==
    Configuration([clusters |-> candidate.clusters, sources |-> candidate.sources,
                   transformations |-> candidate.transformations,
                   destinations |-> candidate.destinations])

\* The Configurations of the candidates when every one of them is valid, and
\* nothing when the constructor of one raises.
ValidatedOf(built_candidates) ==
    IF \E i \in DOMAIN built_candidates : ~built_candidates[i].ok THEN <<>>
    ELSE [i \in DOMAIN built_candidates |-> built_candidates[i].value]

\* What a pass of enrichment hands on to the writer: nothing when it raised.
ValidatedAfter(enriched) ==
    IF enriched.exc # "none" THEN <<>>
    ELSE ValidatedOf([i \in DOMAIN _group_pipeline_configs(enriched.configs) |->
                         ConfigurationOf(_group_pipeline_configs(enriched.configs)[i])])

\* What a collection of files hands on: nothing when a task raised.
ValidatedFrom(loaded) ==
    IF \E i \in DOMAIN loaded : loaded[i].exc # "none" THEN <<>>
    ELSE ValidatedAfter(_enrich_pipeline_configs([i \in DOMAIN loaded |-> loaded[i].value]))

\* create_backend_objects as a function of the files in the order the glob
\* lists them: the sequence of Configurations the writer receives, empty
\* when the run ends with an exception.
create_backend_objects(pipeline_files) ==
    ValidatedFrom([i \in DOMAIN pipeline_files |->
                      _load_pipeline_with_metadata(pipeline_files[i])])

\* The maps a well-formed pipeline file can hold: the three stage lists and a
\* key, version, of a value that is no list.
Fragment(sources, transformations, destinations) ==
    [pipeline_name |-> Absent, target_schema_name |-> Absent, version |-> Absent,
     sources |-> sources, transformations |-> transformations,
     destinations |-> destinations]

SourceEntry(t) ==
    [origin |-> PyStr(sa), datatype |-> PyStr(sa), target |-> PyStr(t), validations |-> Absent]

DestinationEntry(t) ==
    [origin |-> PyStr(sa), target |-> PyStr(t), mode |-> PyStr(sappend), keys |-> Absent,
     sequence_by |-> Absent, validations |-> Absent]

Fragments ==
    {Fragment(PyList(<<SourceEntry(st1)>>), Absent, Absent),
     Fragment(PyList(<<SourceEntry(st2)>>), Absent, Absent),
     Fragment(Absent, Absent, PyList(<<DestinationEntry(st1)>>)),
     Fragment(Absent, Absent, PyList(<<DestinationEntry(st2)>>)),
     Fragment(Absent, PyList(<<Entry(PyStr(so1), Absent, PyStr(st2), Absent, PyStr(sq))>>),
              Absent),
     Fragment(Absent, PyList(<<Entry(PyStr(so1), PyStr(st1), PyStr(st1), PyStr(scsv), Absent)>>),
              Absent)}

NoFragment == Fragment(Absent, Absent, Absent)

\* The files the glob can find: of one schema and two pipelines, each a
\* well-formed JSON file or a file the loader cannot read or parse.
PipelineFiles ==
    {[schema |-> ss1, pipeline |-> pl, ext |-> ".json",
      state |-> [kind |-> "file", text |-> "json"], content |-> c] :
        pl \in {sp1, sp2}, c \in Fragments}
    \cup {[schema |-> ss1, pipeline |-> pl, ext |-> ".json", state |-> f,
           content |-> NoFragment] :
            pl \in {sp1, sp2},
            f \in {[kind |-> "unreadable", text |-> "-"], [kind |-> "file", text |-> "garbage"],
                   [kind |-> "file", text |-> "undecodable"]}}

EnterRun ==
    [pc |-> "collect", i |-> 0, configs |-> <<>>, grouped |-> <<>>, validated |-> <<>>,
     written |-> <<>>, writes |-> 0, exc |-> "none"]

\* The exception is noted and the next element is taken up.
Skip(r, e) == [r EXCEPT !.i = r.i + 1, !.exc = e]

\* An exception leaves create_backend_objects: nothing after it runs.
Abort(r, e) == [r EXCEPT !.pc = "aborted", !.exc = e]

RunIdle == files = <<>> /\ run = EnterRun

RunInit == files \in SeqsUpTo(PipelineFiles, MaxFiles) /\ run = EnterRun

\* One task of the gather in _collect_pipeline_configs: an exception of the
\* task leaves gather and asyncio.run, a result takes its place in the list.
CollectFile ==
    /\ run.pc = "collect" /\ run.i < Len(files)
    /\ LET r == _load_pipeline_with_metadata(files[run.i + 1])
       IN  run' = IF r.exc # "none" THEN Abort(run, r.exc)
                  ELSE [run EXCEPT !.i = run.i + 1, !.configs = Append(run.configs, r.value)]
    /\ UNCHANGED <<files, notRun>>

\* asyncio.run(self._enrich_pipeline_configs(pipeline_configs))
EnrichConfigs ==
    /\ run.pc = "collect" /\ run.i = Len(files)
    /\ LET r == _enrich_pipeline_configs(run.configs)
       IN  run' = IF r.exc # "none" THEN Abort(run, r.exc)
                  ELSE [run EXCEPT !.pc = "group", !.configs = r.configs]
    /\ UNCHANGED <<files, notRun>>

\* The first statement of _validate_pipeline_configs.
GroupConfigs ==
    /\ run.pc = "group"
    /\ run' = [run EXCEPT !.pc = "validate", !.i = 0,
                          !.grouped = _group_pipeline_configs(run.configs)]
    /\ UNCHANGED <<files, notRun>>

\* One pass of the loop of _validate_pipeline_configs: the exception of a
\* constructor leaves the loop, the function and create_backend_objects.
ValidateCandidate ==
    /\ run.pc = "validate" /\ run.i < Len(run.grouped)
    /\ \E c \in {ConfigurationOf(run.grouped[run.i + 1])} :
          run' = IF ~c.ok THEN Abort(run, c.exc)
                 ELSE [run EXCEPT !.i = run.i + 1,
                                  !.validated = Append(run.validated, c.value)]
    /\ UNCHANGED <<files, notRun>>

\* self._create_metadata_tables(validated_pipeline_configs)
CreateMetadataTables ==
    /\ run.pc = "validate" /\ run.i = Len(run.grouped)
    /\ run' = [run EXCEPT !.pc = "done", !.written = run.validated,
                          !.writes = run.writes + 1]
    /\ UNCHANGED <<files, notRun>>

RunNext ==
    \/ CollectFile
    \/ EnrichConfigs
    \/ GroupConfigs
    \/ ValidateCandidate
    \/ CreateMetadataTables

-----------------------------------------------------------------------------
(* The two gathers of a run at the grain of their tasks: one coroutine per   *)
(* discovered file (_collect_pipeline_configs), then one coroutine per stage *)
(* list of every loaded map (_enrich_pipeline_configs). The event loop runs  *)
(* one task at a time and switches between them at their awaits.             *)

\* A load task as gather creates it for the file at position i of
\* pipeline_files: the coroutine has not run yet.
LoadTask(i, pf) ==
    [file |-> i, l |-> EnterLoad(pf.ext), pc |-> "running", result |-> None, exc |-> "none"]

\* One step of the load task t of file pf: a step of get_config_from_file
\* and, once that has returned, the rest of _load_pipeline_with_metadata,
\* which holds no await.
LoadTaskStep(t, pf) ==
    LET l == LoadStep(t.l, pf.state)
    IN  IF l.pc = "raised" THEN [t EXCEPT !.l = l, !.pc = "raised", !.exc = l.exc]
        ELSE IF l.pc = "returned"
        THEN [t EXCEPT !.l = l, !.pc = "returned", !.result = Stamped(pf, l).value]
        ELSE [t EXCEPT !.l = l]

\* A wait that ends with the first task that returns.
GatherFirstDone(ts) == \E i \in DOMAIN ts : ts[i].pc = "returned"

\* await asyncio.gather(*tasks) returns when every task has returned.
GatherDone(ts) == \A i \in DOMAIN ts : ts[i].pc = "returned"

\* The tasks still running are cancelled when an exception leaves the gather
\* and asyncio.run.
Cancelled(ts) ==
    [i \in DOMAIN ts |-> IF ts[i].pc = "running" THEN [ts[i] EXCEPT !.pc = "cancelled"]
                         ELSE ts[i]]

\* Every task is handed the stage list of the first map.
SharedStageConfig(i) == 1

\* The object a task created for pipeline_configs[i] is handed: a stage list
\* of that map (the position of the map stands for the identity of its
\* lists).
StageConfigOf(i) == i

\* enrichment_func[stage_name](stage_config) as created: the coroutine has
\* not run yet; e is the position of the loops of
\* _enrich_transformations_config.
EnrichTask(i, stage) ==
    [of |-> i, ref |-> StageConfigOf(i), stage |-> stage, pc |-> "running", exc |-> "none",
     e |-> [idx |-> 0, cur |-> None, rowi |-> 0, pc |-> "for"]]

\* The coroutines of the comprehension: for every map, for every stage it
\* holds.
RECURSIVE EnrichTasks(_, _)
EnrichTasks(configs, i) ==
    IF i > Len(configs) THEN <<>>
    ELSE (IF configs[i].v.sources # Absent THEN <<EnrichTask(i, "sources")>> ELSE <<>>)
         \o (IF configs[i].v.transformations # Absent
             THEN <<EnrichTask(i, "transformations")>> ELSE <<>>)
         \o (IF configs[i].v.destinations # Absent
             THEN <<EnrichTask(i, "destinations")>> ELSE <<>>)
         \o EnrichTasks(configs, i + 1)

\* The loop state of a transformations task on the list it holds.
LoopOf(t, list) ==
    [list |-> list, idx |-> t.e.idx, cur |-> t.e.cur, rowi |-> t.e.rowi, pc |-> t.e.pc]

\* The stage list written back into the map that holds it.
Store(configs, ref, stage, list) ==
    IF configs[ref].v[stage] = Absent THEN configs
    ELSE [configs EXCEPT ![ref] = PyDict([@.v EXCEPT ![stage] = PyList(list)])]

\* One step of enrichment task t on the maps: [task, configs]. The sources of
\* the model carry no params and destinations are passed over, so their
\* tasks return at their first step; a transformations task takes a step of
\* its loops on the list it was handed.
EnrichTaskStep(t, configs) ==
    IF t.stage # "transformations"
    THEN [task |-> [t EXCEPT !.pc = "returned"], configs |-> configs]
    ELSE LET opened == IF t.e.pc = "rows" THEN get_transformations_from_csv(t.e.cur.config)
                       ELSE [exc |-> "none", rows |-> <<>>]
             e == EnrichStep(LoopOf(t, StageOf(configs[t.ref].v, t.stage)), opened.rows)
             loop == [idx |-> e.idx, cur |-> e.cur, rowi |-> e.rowi, pc |-> e.pc]
         IN  IF opened.exc # "none"
             THEN [task |-> [t EXCEPT !.pc = "raised", !.exc = opened.exc], configs |-> configs]
             ELSE [task |-> [t EXCEPT !.e = loop,
                                      !.pc = IF e.pc = "done" THEN "returned"
                                             ELSE IF e.pc \in {"for", "rows"} THEN "running"
                                             ELSE "raised",
                                      !.exc = IF e.pc \in {"done", "for", "rows"} THEN "none"
                                              ELSE e.pc],
                   configs |-> Store(configs, t.ref, t.stage, e.list)]

\* The files of a run: fragments of two pipelines with sources, with a
\* transformation that references the CSV file (alone, followed by a SQL
\* transformation, or without the into the expansion reads), a file the
\* process may not read and a file that is no text.
GatherFiles ==
    {[schema |-> ss1, pipeline |-> pl, ext |-> ".json",
      state |-> [kind |-> "file", text |-> "json"],
      content |-> Fragment(Absent,
                           PyList(<<Entry(PyStr(so1), PyStr(st1), PyStr(st1), PyStr(scsv),
                                          Absent)>>),
                           Absent)] : pl \in {sp1, sp2}}
    \cup {[schema |-> ss1, pipeline |-> sp1, ext |-> ".json",
           state |-> [kind |-> "file", text |-> "json"], content |-> c] :
            c \in {Fragment(PyList(<<SourceEntry(st1)>>), Absent, Absent),
                   Fragment(Absent,
                            PyList(<<Entry(PyStr(so1), PyStr(st1), PyStr(st1), PyStr(scsv),
                                           Absent),
                                     Entry(PyStr(so1), Absent, PyStr(st2), Absent, PyStr(sq))>>),
                            Absent),
                   Fragment(Absent,
                            PyList(<<Entry(PyStr(so2), Absent, PyStr(st2), PyStr(scsv),
                                           Absent)>>),
                            Absent)}}
    \cup {[schema |-> ss1, pipeline |-> sp1, ext |-> ".json", state |-> f,
           content |-> NoFragment] :
            f \in {[kind |-> "unreadable", text |-> "-"],
                   [kind |-> "file", text |-> "undecodable"]}}

\* Before _collect_pipeline_configs has created its tasks.
EnterGather(paths) ==
    [phase |-> "discover", paths |-> paths, load |-> <<>>, configs |-> <<>>,
     enrich |-> <<>>, exc |-> "none"]

GatherIdle == tasks = EnterGather(<<>>)

GatherInit == tasks \in {EnterGather(fs) : fs \in SeqsUpTo(GatherFiles, MaxFiles)}

\* pipeline_tasks = [self._load_pipeline_with_metadata(f) for f in
\* pipeline_files]; asyncio.gather(*pipeline_tasks) schedules them all.
CreateLoadTasks ==
    /\ tasks.phase = "discover"
    /\ tasks' = [tasks EXCEPT !.phase = "collect",
                              !.load = [i \in DOMAIN tasks.paths |->
                                           LoadTask(i, tasks.paths[i])]]
    /\ UNCHANGED notGather

\* The event loop resumes one load task up to its next await.
LoadTaskRun ==
    /\ tasks.phase = "collect"
    /\ \E i \in DOMAIN tasks.load :
          /\ tasks.load[i].pc = "running"
          /\ tasks' = [tasks EXCEPT !.load[i] =
                          LoadTaskStep(tasks.load[i], tasks.paths[tasks.load[i].file])]
    /\ UNCHANGED notGather

\* The exception of a load task leaves the gather, _collect_pipeline_configs
\* and asyncio.run.
CollectRaises ==
    /\ tasks.phase = "collect" /\ tasks.exc = "none"
    /\ \E i \in DOMAIN tasks.load :
          /\ tasks.load[i].pc = "raised"
          /\ tasks' = [tasks EXCEPT !.exc = tasks.load[i].exc,
                                    !.load = Cancelled(tasks.load)]
    /\ UNCHANGED notGather

\* The first gather returns the results in the order of the files;
\* _enrich_pipeline_configs creates a coroutine for every stage of every map
\* (a None among the results has no items()) and gathers them.
StartEnrich ==
    /\ tasks.phase = "collect" /\ tasks.exc = "none"
    /\ GatherDone(tasks.load)
    /\ LET results == [i \in DOMAIN tasks.load |-> tasks.load[i].result]
       IN  tasks' = IF \E i \in DOMAIN results : results[i] = None
                    THEN [tasks EXCEPT !.phase = "enrich", !.configs = results,
                                       !.exc = "AttributeError"]
                    ELSE [tasks EXCEPT !.phase = "enrich", !.configs = results,
                                       !.enrich = EnrichTasks(results, 1)]
    /\ UNCHANGED notGather

\* The event loop resumes one enrichment task up to its next await.
EnrichTaskRun ==
    /\ tasks.phase = "enrich"
    /\ \E k \in DOMAIN tasks.enrich :
          /\ tasks.enrich[k].pc = "running"
          /\ \E r \in {EnrichTaskStep(tasks.enrich[k], tasks.configs)} :
                tasks' = [tasks EXCEPT !.enrich[k] = r.task, !.configs = r.configs]
    /\ UNCHANGED notGather

\* The exception of an enrichment task leaves the gather,
\* _enrich_pipeline_configs and asyncio.run.
EnrichRaises ==
    /\ tasks.phase = "enrich" /\ tasks.exc = "none"
    /\ \E k \in DOMAIN tasks.enrich :
          /\ tasks.enrich[k].pc = "raised"
          /\ tasks' = [tasks EXCEPT !.exc = tasks.enrich[k].exc,
                                    !.enrich = Cancelled(tasks.enrich)]
    /\ UNCHANGED notGather

\* The second gather returns; create_backend_objects goes on to
\* _validate_pipeline_configs, which groups and validates.
StartValidate ==
    /\ tasks.phase = "enrich" /\ tasks.exc = "none"
    /\ GatherDone(tasks.enrich)
    /\ tasks' = [tasks EXCEPT !.phase = "validate"]
    /\ UNCHANGED notGather

GatherNext ==
    \/ CreateLoadTasks
    \/ LoadTaskRun
    \/ CollectRaises
    \/ StartEnrich
    \/ EnrichTaskRun
    \/ EnrichRaises
    \/ StartValidate

-----------------------------------------------------------------------------
(* get_transformations_from_csv as the asynchronous generator it is, with    *)
(* the loop that consumes it and the asyncio.run the loop runs in.           *)

\* dict(zip(fieldnames, row)) of csv.DictReader: the cells under the column
\* headers, None (restval) under the headers a short line has no cell for,
\* the cells beyond the headers as a list under the key None (restkey).
DictRow(fieldnames, row) ==
    PyMap([i \in 1..Len(fieldnames) |->
              Item(PyStr(fieldnames[i]), IF i <= Len(row) THEN PyStr(row[i]) ELSE None)]
          \o (IF Len(row) > Len(fieldnames)
              THEN <<Item(None, PyList([i \in 1..(Len(row) - Len(fieldnames)) |->
                                           PyStr(row[Len(fieldnames) + i])]))>>
              ELSE <<>>))

\* The position of the next line csv.DictReader makes a row of, from
\* position n on: lines without cells are passed over. 0: there is none.
RECURSIVE NextRow(_, _)
NextRow(lines, n) ==
    IF n > Len(lines) THEN 0
    ELSE IF lines[n] = <<>> THEN NextRow(lines, n + 1)
    ELSE n

\* The handle is left as it is.
LeaveOpen(g) == g

\* The end of the `async with aiofiles.open(...)` block, however it is left:
\* the handle is closed.
ExitAsyncWith(g) == [g EXCEPT !.handle = "closed"]

\* The generator object as the call creates it: nothing has run.
\*   lines:  the lines of the file, the first being the header
\*   handle: "none", "open" or "closed"
\*   read:   the number of lines read from the handle
\*   pos:    the number of lines the reader has consumed
\*   pc:     "created", "opened", "reading" (in the for loop), "suspended"
\*           (at the yield), "finished" or "closed" (by aclose())
EnterCsv(lines) ==
    [lines |-> lines, handle |-> "none", read |-> 0, pos |-> 0, pc |-> "created",
     yielded |-> <<>>, consumer |-> "iterating", run |-> "running"]

\* One step of the generator for a consumer that asks for the next row.
CsvStep(g) ==
    CASE g.pc = "created" -> [g EXCEPT !.handle = "open", !.pc = "opened"]
      [] g.pc = "opened" -> [g EXCEPT !.read = Len(g.lines), !.pos = 1, !.pc = "reading"]
      [] g.pc = "reading" ->
            LET n == NextRow(g.lines, g.pos + 1)
            IN  IF n = 0
                THEN [ExitAsyncWith(g) EXCEPT !.pos = Len(g.lines), !.pc = "finished",
                                             !.consumer = "exhausted"]
                ELSE [g EXCEPT !.pos = n, !.pc = "suspended",
                               !.yielded = Append(@, DictRow(g.lines[1], g.lines[n]))]
      [] g.pc = "suspended" -> [g EXCEPT !.pc = "reading"]

\* aclose() of a generator suspended at its yield: GeneratorExit is raised
\* there and leaves the async with block.
Aclose(g) == IF g.pc = "suspended" THEN [ExitAsyncWith(g) EXCEPT !.pc = "closed"] ELSE g

\* The files: a header of two columns and data lines with two cells, with
\* one, with three, and without any.
CsvLines == {<<<<49>>, sa>>, <<<<50>>>>, <<<<51>>, sa, sb>>, <<>>}

CsvFiles == {<<<<sa, sb>>>> \o ls : ls \in SeqsUpTo(CsvLines, MaxRows)}

CsvIdle == gen = EnterCsv(<<>>)

CsvInit == gen \in {EnterCsv(f) : f \in CsvFiles}

\* async with aiofiles.open(csv_path, "r") as aio_file
CsvOpen ==
    /\ gen.pc = "created" /\ gen.run = "running"
    /\ gen' = CsvStep(gen)
    /\ UNCHANGED notCsv

\* contents = await aio_file.read(); csv.DictReader(StringIO(contents))
CsvRead ==
    /\ gen.pc = "opened"
    /\ gen' = CsvStep(gen)
    /\ UNCHANGED notCsv

\* for row in reader: yield row
CsvYield ==
    /\ gen.pc = "reading" /\ NextRow(gen.lines, gen.pos + 1) # 0
    /\ gen' = CsvStep(gen)
    /\ UNCHANGED notCsv

\* The reader is exhausted: the generator leaves the async with block and
\* ends, and so does the async for loop of the consumer.
CsvReturn ==
    /\ gen.pc = "reading" /\ NextRow(gen.lines, gen.pos + 1) = 0
    /\ gen' = CsvStep(gen)
    /\ UNCHANGED notCsv

\* The body of the consumer's loop ends and the loop asks for the next row.
ConsumerNext ==
    /\ gen.pc = "suspended" /\ gen.consumer = "iterating"
    /\ gen' = CsvStep(gen)
    /\ UNCHANGED notCsv

\* The body of the consumer's loop raises (row["column_order"],
\* transformation_config["origin"] or ["into"]): the loop is left with the
\* generator suspended at its yield.
ConsumerRaises ==
    /\ gen.pc = "suspended" /\ gen.consumer = "iterating"
    /\ gen' = [gen EXCEPT !.consumer = "abandoned"]
    /\ UNCHANGED notCsv

\* The abandoned generator is collected while the event loop runs: the
\* loop's finalizer hook runs its aclose().
AsyncgenFinalize ==
    /\ gen.pc = "suspended" /\ gen.consumer = "abandoned" /\ gen.run = "running"
    /\ gen' = Aclose(gen)
    /\ UNCHANGED notCsv

\* asyncio.run ends once the consumer has: it runs loop.shutdown_asyncgens(),
\* the aclose() of every generator still alive.
AsyncioRunEnds ==
    /\ gen.consumer \in {"exhausted", "abandoned"} /\ gen.run = "running"
    /\ gen' = [Aclose(gen) EXCEPT !.run = "ended"]
    /\ UNCHANGED notCsv

CsvNext ==
    \/ CsvOpen
    \/ CsvRead
    \/ CsvYield
    \/ CsvReturn
    \/ ConsumerNext
    \/ ConsumerRaises
    \/ AsyncgenFinalize
    \/ AsyncioRunEnds

-----------------------------------------------------------------------------
(* Metadata._group_pipeline_configs as a function of the list it is handed. *)

ss2 == <<115, 50>>

\* A loaded map: a fragment stamped with its schema and pipeline, with or
\* without a version.
Loaded(schema, pipeline, version, fragment) ==
    PyDict([fragment EXCEPT !.target_schema_name = schema, !.pipeline_name = pipeline,
                            !.version = version])

\* The maps of three logical pipelines of two schemas.
GroupInputs ==
    {Loaded(key[1], key[2], c[1], c[2]) :
        key \in {<<ss1, sp1>>, <<ss1, sp2>>, <<ss2, sp1>>},
        c \in {<<Absent, Fragment(PyList(<<SourceEntry(st1)>>), Absent, Absent)>>,
               <<PyInt(1), Fragment(PyList(<<SourceEntry(st2)>>), Absent,
                                    PyList(<<DestinationEntry(st2)>>))>>,
               <<PyInt(2), Fragment(PyList(<<SourceEntry(st1)>>), Absent, Absent)>>}}

EnterGroup(configs) == [configs |-> configs, called |-> FALSE, out |-> <<>>]

GroupIdle == grp = EnterGroup(<<>>)

GroupInit == grp \in {EnterGroup(cs) : cs \in SeqsUpTo(GroupInputs, MaxConfigs)}

\* grouped_pipeline_configs = self._group_pipeline_configs(pipeline_configs)
CallGroup ==
    /\ ~grp.called
    /\ grp' = [grp EXCEPT !.called = TRUE, !.out = _group_pipeline_configs(grp.configs)]
    /\ UNCHANGED notGroup

GroupNext == CallGroup

-----------------------------------------------------------------------------
(* validation.py: _is_empty and sanitize_empty_objects. *)

\* isinstance(n, int): bool is a subclass of int.
IsInstanceInt(x) == x.t \in {"int", "bool"}

\* obj.values() of a dict, the elements of a list.
Members(obj) == IF obj.t = "map" THEN [i \in DOMAIN obj.v |-> obj.v[i].v] ELSE obj.v

_is_empty(obj) ==
    IF obj.t = "str" /\ Strip(obj.v) = <<>> THEN TRUE
    ELSE IF obj.t \in {"map", "list"}
    THEN /\ ~\E i \in DOMAIN Members(obj) : Truthy(Members(obj)[i])
         /\ ~\E i \in DOMAIN Members(obj) : Members(obj)[i].t = "bool"
         /\ ~\E i \in DOMAIN Members(obj) : IsInstanceInt(Members(obj)[i])
    ELSE FALSE

\* An exception in place of a value.
Raise(e) == [t |-> "raise", v |-> e]

\* k.replace(".", "_"): a key that is no str has no such method.
ReplaceDots(k) ==
    IF k.t # "str" THEN Raise("AttributeError")
    ELSE PyStr([i \in DOMAIN k.v |-> IF k.v[i] = 46 THEN 95 ELSE k.v[i]])

\* d[k] = v on a dict held as its items: the value of an existing key is
\* replaced in place, a new key is added at the end.
SetItem(items, k, v) ==
    IF \E j \in DOMAIN items : items[j].k = k
    THEN [j \in DOMAIN items |-> IF items[j].k = k THEN Item(k, v) ELSE items[j]]
    ELSE Append(items, Item(k, v))

\* The dict a comprehension builds from the pairs it produces, in order.
RECURSIVE DictOf(_)
DictOf(pairs) ==
    IF pairs = <<>> THEN <<>>
    ELSE SetItem(DictOf(SubSeq(pairs, 1, Len(pairs) - 1)),
                 pairs[Len(pairs)].k, pairs[Len(pairs)].v)

NotNone(x) == x # None

NotNoneItem(x) == x.v # None

\* The exception among the values, if one of them is an exception.
Raising(values) == \E i \in DOMAIN values : values[i].t = "raise"

RECURSIVE _sanitize_empty_elements(_, _)
RECURSIVE _santize_empty_fields(_, _)

\* The conditional expression both comprehensions apply to a member.
SanitizedMember(v, drop_empty) ==
    IF _is_empty(v) THEN None
    ELSE IF v.t = "map" THEN _santize_empty_fields(v, drop_empty)
    ELSE IF v.t = "list" THEN _sanitize_empty_elements(v, drop_empty)
    ELSE v

\* The list built from the sanitized elements.
ElementsOf(elements, drop_empty) ==
    IF Raising(elements) THEN Raise("AttributeError")
    ELSE IF drop_empty THEN PyList(SelectSeq(elements, NotNone))
    ELSE PyList(elements)

_sanitize_empty_elements(list_to_sanitize, drop_empty) ==
    ElementsOf([i \in DOMAIN list_to_sanitize.v |->
                   SanitizedMember(list_to_sanitize.v[i], drop_empty)], drop_empty)

\* The dict built from the rewritten keys and the sanitized values.
FieldsOf(keys, values, drop_empty) ==
    IF Raising(keys) \/ Raising(values) THEN Raise("AttributeError")
    ELSE IF drop_empty
    THEN PyMap(SelectSeq(DictOf([i \in DOMAIN keys |-> Item(keys[i], values[i])]),
                         NotNoneItem))
    ELSE PyMap(DictOf([i \in DOMAIN keys |-> Item(keys[i], values[i])]))

_santize_empty_fields(dict_to_sanitize, drop_empty) ==
    FieldsOf([i \in DOMAIN dict_to_sanitize.v |-> ReplaceDots(dict_to_sanitize.v[i].k)],
             [i \in DOMAIN dict_to_sanitize.v |->
                 SanitizedMember(dict_to_sanitize.v[i].v, drop_empty)],
             drop_empty)

sanitize_empty_objects(obj, drop_empty) ==
    IF obj.t = "map" THEN _santize_empty_fields(obj, drop_empty)
    ELSE IF obj.t = "list" THEN _sanitize_empty_elements(obj, drop_empty)
    ELSE Raise("TypeError")

\* The inputs: scalars, lists and dicts of scalars, and those nested once more.
sk == <<107>>
sdotted == <<97, 46, 98>>
sunderscored == <<97, 95, 98>>

Scalars == {None, PyBool(FALSE), PyInt(0), PyStr(<<>>), PyStr(<<32>>), PyStr(sa)}

\* The key lists of the dicts: plain, dotted, colliding after the rewrite, not a str.
KeyLists ==
    {<<PyStr(sk)>>, <<PyStr(sdotted)>>, <<PyInt(1)>>,
     <<PyStr(sdotted), PyStr(sunderscored)>>, <<PyStr(sk), PyStr(sdotted)>>}

ListsOver(S) == {PyList(l) : l \in SeqsUpTo(S, MaxItems)}

MapsOver(S) ==
    UNION {{PyMap([i \in DOMAIN ks |-> Item(ks[i], vs[i])]) : vs \in [DOMAIN ks -> S]} :
              ks \in KeyLists}

Flat == ListsOver(Scalars) \cup MapsOver(Scalars)

Nested ==
    {PyList(<<x>>) : x \in Flat} \cup {PyList(<<x, PyStr(sa)>>) : x \in Flat}
    \cup {PyMap(<<Item(PyStr(sk), x)>>) : x \in Flat}

Objects == Scalars \cup Flat \cup Nested

NotCalled == [op |-> "none", out |-> None]

SanitizeIdle == sobj = [obj |-> None, drop_empty |-> FALSE] /\ san = NotCalled

SanitizeInit ==
    /\ sobj \in {[obj |-> o, drop_empty |-> d] : o \in Objects, d \in BOOLEAN}
    /\ san = NotCalled

\* _is_empty(obj)
CallIsEmpty ==
    /\ san = NotCalled
    /\ san' = [op |-> "_is_empty", out |-> PyBool(_is_empty(sobj.obj))]
    /\ UNCHANGED <<sobj, notSanitize>>

\* sanitize_empty_objects(obj, drop_empty)
CallSanitize ==
    /\ san = NotCalled
    /\ san' = [op |-> "sanitize_empty_objects",
               out |-> sanitize_empty_objects(sobj.obj, sobj.drop_empty)]
    /\ UNCHANGED <<sobj, notSanitize>>

SanitizeNext ==
    \/ CallIsEmpty
    \/ CallSanitize

-----------------------------------------------------------------------------
(* The schema as a state machine: a constructor is called once on its input. *)

SchemaIdle == cand = [kind |-> "none"] /\ built = NotBuilt

SchemaInit == cand \in SchemaInputs /\ built = NotBuilt

ConstructSource ==
    /\ cand.kind = "Source" /\ built = NotBuilt
    /\ built' = Source(cand.raw)
    /\ UNCHANGED <<cand, notSchema>>

ConstructTransformation ==
    /\ cand.kind = "Transformation" /\ built = NotBuilt
    /\ built' = Transformation(cand.raw)
    /\ UNCHANGED <<cand, notSchema>>

ConstructDestination ==
    /\ cand.kind = "Destination" /\ built = NotBuilt
    /\ built' = Destination(cand.raw)
    /\ UNCHANGED <<cand, notSchema>>

ConstructCluster ==
    /\ cand.kind = "Cluster" /\ built = NotBuilt
    /\ built' = Cluster(cand.raw)
    /\ UNCHANGED <<cand, notSchema>>

ConstructConfiguration ==
    /\ cand.kind = "Configuration" /\ built = NotBuilt
    /\ built' = Configuration(cand.raw)
    /\ UNCHANGED <<cand, notSchema>>

SchemaNext ==
    \/ ConstructSource
    \/ ConstructTransformation
    \/ ConstructDestination
    \/ ConstructCluster
    \/ ConstructConfiguration


-----------------------------------------------------------------------------
(* The specifications. *)

InitSchema == SchemaInit /\ EnrichIdle /\ LoaderIdle /\ RunIdle /\ SanitizeIdle /\ GatherIdle /\ CsvIdle /\ GroupIdle

InitEnrich == EnrichInit /\ SchemaIdle /\ LoaderIdle /\ RunIdle /\ SanitizeIdle /\ GatherIdle /\ CsvIdle /\ GroupIdle

InitLoader == LoaderInit /\ SchemaIdle /\ EnrichIdle /\ RunIdle /\ SanitizeIdle /\ GatherIdle /\ CsvIdle /\ GroupIdle

Init == RunInit /\ SchemaIdle /\ EnrichIdle /\ LoaderIdle /\ SanitizeIdle /\ GatherIdle /\ CsvIdle /\ GroupIdle

InitSanitize == SanitizeInit /\ SchemaIdle /\ EnrichIdle /\ LoaderIdle /\ RunIdle /\ GatherIdle /\ CsvIdle /\ GroupIdle

SpecSchema == InitSchema /\ [][SchemaNext]_vars

SpecEnrich == InitEnrich /\ [][EnrichNext]_vars

\* The coroutine is the only task of its event loop or one of a gather, and
\* the loop resumes every task that can run: a step that stays possible is
\* taken.
SpecEnrichFair == InitEnrich /\ [][EnrichNext]_vars /\ WF_vars(EnrichNext)

SpecLoader == InitLoader /\ [][LoaderNext]_vars

Spec == Init /\ [][RunNext]_vars

SpecSanitize == InitSanitize /\ [][SanitizeNext]_vars

InitGather == GatherInit /\ SchemaIdle /\ EnrichIdle /\ LoaderIdle /\ RunIdle /\ SanitizeIdle /\ CsvIdle /\ GroupIdle

SpecGather == InitGather /\ [][GatherNext]_vars

InitCsv == CsvInit /\ SchemaIdle /\ EnrichIdle /\ LoaderIdle /\ RunIdle /\ SanitizeIdle /\ GatherIdle /\ GroupIdle

SpecCsv == InitCsv /\ [][CsvNext]_vars

InitGroup == GroupInit /\ SchemaIdle /\ EnrichIdle /\ LoaderIdle /\ RunIdle /\ SanitizeIdle /\ GatherIdle /\ CsvIdle

SpecGroup == InitGroup /\ [][GroupNext]_vars

-----------------------------------------------------------------------------
(* Properties of the schema, checked under SpecSchema. *)

Constructed(kinds) == cand.kind \in kinds /\ built # NotBuilt

\* The entries of a stage of the raw input, as a sequence (missing: none).
RawStage(stage) == IF cand.raw[stage] = Absent THEN <<>> ELSE cand.raw[stage].v

\* The entries whose target takes part in the uniqueness rule: every source,
\* every destination, and the transformations that carry a sql_query.
Checked ==
    {<<"sources", i>> : i \in DOMAIN RawStage("sources")}
    \cup {<<"destinations", i>> : i \in DOMAIN RawStage("destinations")}
    \cup {<<"transformations", i>> : i \in {j \in DOMAIN RawStage("transformations") :
              RawStage("transformations")[j].sql_query # Absent}}

ColumnMetadata ==
    {<<"transformations", i>> : i \in {j \in DOMAIN RawStage("transformations") :
        RawStage("transformations")[j].sql_query = Absent}}

TargetAt(p) == RawStage(p[1])[p[2]].target

HasDuplicateTarget == \E p, q \in Checked : p # q /\ TargetAt(p) = TargetAt(q)

\* A column-metadata transformation shares its target with a destination or
\* with another column-metadata transformation.
ColumnMetadataShares ==
    \E p \in ColumnMetadata :
        \E q \in (ColumnMetadata \ {p})
                 \cup {<<"destinations", i>> : i \in DOMAIN RawStage("destinations")} :
            TargetAt(p) = TargetAt(q)

AllStagesEmpty == \A stage \in StageNames : RawStage(stage) = <<>>

\* C7 (as claimed): a candidate whose three stage lists are each absent or
\* empty fails with the "No stage definition found" diagnostic.
C7_NoStageRejected ==
    Constructed({"Configuration"}) /\ AllStagesEmpty =>
        ~built.ok /\ "No stage definition found" \in built.errors

Entities == {"Source", "Transformation", "Destination"}

\* The raw validations list of the entity under construction.
RawValidations == IF cand.raw.validations = Absent THEN <<>> ELSE cand.raw.validations.v

SameRule(a, b) == Strip(a.validation_rule.v) = Strip(b.validation_rule.v)

SameAction(a, b) == ToUpper(a.validation_action.v) = ToUpper(b.validation_action.v)

\* Two entries with the same trimmed rule and different actions.
ConflictingValidations ==
    \E i, j \in DOMAIN RawValidations :
        SameRule(RawValidations[i], RawValidations[j])
        /\ ~SameAction(RawValidations[i], RawValidations[j])

\* The entity's own cross-field rule is met and its other fields are
\* well-formed, so that the validations list alone decides the construction.
OtherwiseValid ==
    CASE cand.kind = "Source" -> cand.raw.origin.v # <<>>
      [] cand.kind = "Transformation" ->
            \/ cand.raw.column_order = PyInt(1) /\ cand.raw.sql_query = Absent
            \/ cand.raw.column_order = Absent /\ IsNonEmptyStr(cand.raw.sql_query)
      [] cand.kind = "Destination" ->
            cand.raw.mode.v = supsert =>
                cand.raw["keys"] \notin {Absent, PyList(<<>>)}
                /\ cand.raw.sequence_by # Absent
      [] OTHER -> FALSE

C9_PureDuplicatePermitted ==
    Constructed(Entities) /\ OtherwiseValid /\ ~ConflictingValidations => built.ok

\* C10 (as claimed): a Cluster with valid label and node_type_id is constructed
\* exactly when one of num_workers and autoscale is provided, for every
\* integer value of num_workers.
C10_ClusterExactlyOne ==
    Constructed({"Cluster"}) =>
        (built.ok <=> (cand.raw.num_workers # Absent) # (cand.raw.autoscale # Absent))

\* An argument the caller has given.
Provided(f) == Arg(cand.raw, f) # Absent

\* No rule is listed twice, so that the validations list is accepted.
NoRepeatedRule ==
    \A i, j \in DOMAIN RawValidations :
        i # j => ~SameRule(RawValidations[i], RawValidations[j])

C12_ColumnMetadataWithSqlQueryRejected ==
    /\ Constructed({"Transformation"})
    /\ Provided("source_column_name") /\ Provided("dest_column_name")
    /\ IsNonEmptyStr(cand.raw.sql_query)
    => ~built.ok

\* C13: a Destination of mode upsert is not constructed when keys is missing
\* or empty or when sequence_by is missing, and is constructed when a
\* non-empty keys list and a sequence_by are given; a Destination of mode
\* append is constructed whatever keys and sequence_by are (its validations
\* list being acceptable).
C13_UpsertRequiresKeysAndSequence ==
    Constructed({"Destination"}) =>
        /\ /\ cand.raw.mode = PyStr(supsert)
           /\ cand.raw["keys"] \in {Absent, PyList(<<>>)} \/ cand.raw.sequence_by = Absent
           => ~built.ok
        /\ /\ cand.raw.mode = PyStr(supsert)
           /\ cand.raw["keys"] \notin {Absent, PyList(<<>>)} /\ cand.raw.sequence_by # Absent
           /\ NoRepeatedRule
           => built.ok
        /\ cand.raw.mode = PyStr(sappend) /\ NoRepeatedRule => built.ok

\* C13 witness: mode upsert with keys and without sequence_by is rejected.
C13_Witness ==
    /\ Constructed({"Destination"})
    /\ cand.raw.mode = PyStr(supsert) /\ cand.raw["keys"] = PyList(<<PyStr(sa)>>)
    /\ cand.raw.sequence_by = Absent
    /\ built.errors = {"Mode upsert requires that keys and sequence_by are defined"}

\* C20 (as claimed): the exactly-one rule of a Transformation is evaluated only
\* when column_order and sql_query are each well-typed, so a Transformation
\* with an ill-typed one is never rejected with a message of that rule.
C20_CrossFieldAfterFields ==
    /\ Constructed({"Transformation"})
    /\ \/ Provided("column_order") /\ ~IsColumnOrder(cand.raw.column_order)
       \/ Provided("sql_query") /\ ~IsNonEmptyStr(cand.raw.sql_query)
    => built.errors \cap {"No transformation defined",
                          "Only one of config or sql_query allowed"} = {}

-----------------------------------------------------------------------------
(* Properties of the CSV expansion, checked under SpecEnrich. *)

Last(l) == l[Len(l)]

\* The positions of the entries of the input list that reference a CSV file.
Referencing == {i \in DOMAIN tlist0 : tlist0[i].config # Absent}

\* The rows of the file are plain column rows: none names a CSV file itself.
PlainRows == \A j \in DOMAIN csv : csv[j].config = Absent

\* The input list without its k-th entry.
Without(l, k) == SubSeq(l, 1, k - 1) \o SubSeq(l, k + 1, Len(l))

C5_OriginTargetInherited ==
    enr.pc = "rows" /\ enr.rowi > 0
    /\ enr.cur.origin # Absent /\ enr.cur.target # Absent =>
        /\ Last(enr.list).origin = enr.cur.origin
        /\ Last(enr.list).target = enr.cur.target

\* C19 (as claimed): once the function has returned (the rows being plain
\* column rows), no entry of the list references a CSV file, and every entry
\* of the input that referenced none is in the list as often as it was.
C19_AllReferencesExpanded ==
    enr.pc = "done" /\ PlainRows =>
        /\ \A i \in DOMAIN enr.list : ~References(enr.list[i])
        /\ \A i \in DOMAIN tlist0 :
              ~References(tlist0[i]) => Count(enr.list, tlist0[i]) = Count(tlist0, tlist0[i])

-----------------------------------------------------------------------------
(* Properties of get_config_from_file, checked under SpecLoader. *)

\* C3 (as claimed): the call never ends by raising; it returns the parsed map
\* for a text file that is well-formed in the format of its suffix, and None
\* for every other state of the file.
C3_NeverRaises ==
    /\ ld.pc # "raised"
    /\ ld.pc = "returned" =>
          (ld.result = "map") = (Parse(LoaderOf(ld.ext), file.text) = "map")

-----------------------------------------------------------------------------
(* Properties of create_backend_objects, checked under Spec. *)

CandidateValid(c) == ConfigurationOf(c).ok

\* The validated Configurations of the valid candidates, in their order.
RECURSIVE ValidConfigurations(_)
ValidConfigurations(cs) ==
    IF cs = <<>> THEN <<>>
    ELSE (IF CandidateValid(Head(cs)) THEN <<ConfigurationOf(Head(cs)).value>> ELSE <<>>)
         \o ValidConfigurations(Tail(cs))

RunEnded == run.pc \in {"done", "aborted"}

\* C1 (as claimed): a run over several grouped candidates, some valid and some
\* not, ends normally, and the Configurations of all valid candidates reach
\* the writer.
C1_FailureIsolation ==
    /\ RunEnded
    /\ \E i \in DOMAIN run.grouped : CandidateValid(run.grouped[i])
    /\ \E i \in DOMAIN run.grouped : ~CandidateValid(run.grouped[i])
    => /\ run.pc = "done"
       /\ run.written = ValidConfigurations(run.grouped)

\* C2 (as claimed): a file the loader returns None for adds no element to the
\* list of collected configs, and the run goes on past it.
C2_AbsentFileDropped ==
    /\ \A i \in DOMAIN run.configs : run.configs[i] # None
    /\ ~(run.pc = "aborted" /\ run.exc = "AttributeError")


\* C14 (as claimed): every Configuration handed to the writer carries the
\* target_schema_name and the pipeline_name of the candidate it was built
\* from.
C14_IdentityCarried ==
    run.pc = "done" =>
        \A i \in DOMAIN run.written :
            /\ {"target_schema_name", "pipeline_name"} \subseteq DOMAIN run.written[i]
            /\ run.written[i].target_schema_name = run.grouped[i].target_schema_name
            /\ run.written[i].pipeline_name = run.grouped[i].pipeline_name

\* The orders in which the glob can list the same files.
DiscoveryOrders ==
    {[i \in DOMAIN files |-> files[f[i]]] :
        f \in {g \in [DOMAIN files -> DOMAIN files] :
                  \A i, j \in DOMAIN files : g[i] = g[j] => i = j}}

\* C15 (as claimed): a run over the same files listed in any other order
\* hands the writer the same sequence of Configurations, stage lists equal as
\* sequences.
C15_OrderIndependent ==
    RunEnded => \A fs \in DiscoveryOrders : create_backend_objects(fs) = run.written


-----------------------------------------------------------------------------
(* Properties of the sanitizer, checked under SpecSanitize. *)

\* Empty as the contract words it: a blank string, or a dict or list whose
\* every member is None or itself empty.
RECURSIVE EmptyByContract(_)
EmptyByContract(x) ==
    IF x.t = "str" THEN Strip(x.v) = <<>>
    ELSE IF x.t \in {"map", "list"}
    THEN \A i \in DOMAIN Members(x) :
            Members(x)[i] = None \/ EmptyByContract(Members(x)[i])
    ELSE FALSE

\* C17 (as claimed): _is_empty returns true exactly for a blank string and for
\* a dict or list whose every member is itself empty or None.
C17_IsEmptyContract ==
    san.op = "_is_empty" => san.out = PyBool(EmptyByContract(sobj.obj))

\* Every key of the object, at any depth, is a str without a dot.
RECURSIVE PlainKeys(_)
PlainKeys(x) ==
    IF x.t = "map"
    THEN \A i \in DOMAIN x.v :
            /\ x.v[i].k.t = "str" /\ \A j \in DOMAIN x.v[i].k.v : x.v[i].k.v[j] # 46
            /\ PlainKeys(x.v[i].v)
    ELSE IF x.t = "list" THEN \A i \in DOMAIN x.v : PlainKeys(x.v[i])
    ELSE TRUE

\* The object the contract asks for: every member that is None or empty
\* becomes None (and is left out when drop_empty is set), every other dict or
\* list is rewritten in the same way, every other scalar is kept.
RECURSIVE Expected(_, _)
Expected(x, drop_empty) ==
    IF x.t = "list"
    THEN LET elements == [i \in DOMAIN x.v |->
                             IF x.v[i] = None \/ EmptyByContract(x.v[i]) THEN None
                             ELSE Expected(x.v[i], drop_empty)]
         IN  PyList(IF drop_empty THEN SelectSeq(elements, NotNone) ELSE elements)
    ELSE IF x.t = "map"
    THEN LET fields == [i \in DOMAIN x.v |->
                           Item(x.v[i].k,
                                IF x.v[i].v = None \/ EmptyByContract(x.v[i].v) THEN None
                                ELSE Expected(x.v[i].v, drop_empty))]
         IN  PyMap(IF drop_empty THEN SelectSeq(fields, NotNoneItem) ELSE fields)
    ELSE x

\* C16 (as claimed): for a dict or list (its keys plain), sanitize_empty_objects
\* returns the object in which every empty member, at any depth, is None
\* (drop_empty false) or left out (drop_empty true) and everything else is
\* kept.
C16_SanitizeRewritesEmpty ==
    /\ san.op = "sanitize_empty_objects"
    /\ sobj.obj.t \in {"map", "list"} /\ PlainKeys(sobj.obj)
    => san.out = Expected(sobj.obj, sobj.drop_empty)

\* str(n) of a natural number.
RECURSIVE StrOfNat(_)
StrOfNat(n) == IF n < 10 THEN <<48 + n>> ELSE StrOfNat(n \div 10) \o <<48 + (n % 10)>>

\* The key the contract asks for: dots replaced, a key that is no str turned
\* into its string form.
ContractKey(k) ==
    IF k.t = "int" THEN PyStr(StrOfNat(k.v))
    ELSE PyStr([i \in DOMAIN k.v |-> IF k.v[i] = 46 THEN 95 ELSE k.v[i]])

\* C18 (as claimed): sanitizing a dict (drop_empty false) returns a dict that
\* holds, for every key of the input, the rewritten key, and under it the
\* sanitized value when no other key is rewritten to the same one.
C18_KeysRewritten ==
    /\ san.op = "sanitize_empty_objects"
    /\ sobj.obj.t = "map" /\ ~sobj.drop_empty
    => /\ san.out.t = "map"
       /\ \A i \in DOMAIN sobj.obj.v :
             \E j \in DOMAIN san.out.v :
                /\ san.out.v[j].k = ContractKey(sobj.obj.v[i].k)
                /\ (\A h \in DOMAIN sobj.obj.v :
                       h # i => ContractKey(sobj.obj.v[h].k) # ContractKey(sobj.obj.v[i].k))
                   => san.out.v[j].v = SanitizedMember(sobj.obj.v[i].v, FALSE)

-----------------------------------------------------------------------------
(* Properties of the error taxonomy, checked under SpecSchema. *)

\* C21 (as claimed): a constructor call that does not build its entity fails
\* with a validation error and with no other kind of exception.
C21_StructuredFailure ==
    built # NotBuilt /\ ~built.ok => built.exc = "ValidationError"

-----------------------------------------------------------------------------
(* Properties of the two gathers, checked under SpecGather. *)

\* What the load task of the file at position i returns or raises when it
\* runs alone.
LoadedAlone(i) == _load_pipeline_with_metadata(tasks.paths[i])

\* C22: once the load tasks are created there is exactly one per discovered
\* file, the task at position i loading the file at position i; and the run
\* is in _enrich_pipeline_configs or beyond only when every load task has
\* returned, each with None or with the complete stamped map of its file.
C22_FanOutFanIn ==
    /\ tasks.phase # "discover" =>
          /\ Len(tasks.load) = Len(tasks.paths)
          /\ \A i \in DOMAIN tasks.load : tasks.load[i].file = i
    /\ tasks.phase \in {"enrich", "validate"} =>
          \A i \in DOMAIN tasks.load :
             /\ tasks.load[i].pc = "returned"
             /\ tasks.load[i].result = LoadedAlone(i).value

\* C22 witness: enrichment has begun on the results of two files and one of
\* its tasks has taken a step.
C22_Witness ==
    /\ tasks.phase = "enrich" /\ Len(tasks.paths) = 2
    /\ \A i \in DOMAIN tasks.load : tasks.load[i].pc = "returned"
    /\ \E k \in DOMAIN tasks.enrich : tasks.enrich[k].e.idx > 0

\* The enrichment task created for stage s of the map at position i.
TaskOf(i, s) == CHOOSE k \in DOMAIN tasks.enrich :
                    tasks.enrich[k].of = i /\ tasks.enrich[k].stage = s

\* What enrichment makes of stage s of the file at position i when its task
\* runs alone on the loaded map: [exc, list].
EnrichedAlone(i, s) ==
    IF s = "transformations"
    THEN _enrich_transformations_config(LoadedAlone(i).value.v[s].v)
    ELSE [exc |-> "none", list |-> LoadedAlone(i).value.v[s].v]

\* The task of stage s of map i run on alone to its end from where it is,
\* on the stage list of map i as it is now.
Continued(i, s) ==
    IF s = "transformations"
    THEN RunEnrichLoop(LoopOf(tasks.enrich[TaskOf(i, s)], tasks.configs[i].v[s].v), CsvRows)
    ELSE [list |-> tasks.configs[i].v[s].v, pc |-> "done"]

\* C23: at every point of every interleaving, a load task that has ended has
\* returned or raised what it does alone and one that has not would do so if
\* it ran on alone; and every stage list, with the task created for it run on
\* alone from where it is, ends as it does when that task runs alone from
\* the start on the loaded map: no step of another task has changed it.
C23_TasksIsolated ==
    /\ \A i \in DOMAIN tasks.load :
          LET t == tasks.load[i]
              alone == Stamped(tasks.paths[i], RunLoader(t.l, tasks.paths[i].state))
          IN  /\ alone = LoadedAlone(i)
              /\ t.pc = "returned" => t.result = alone.value /\ alone.exc = "none"
              /\ t.pc = "raised" => t.exc = alone.exc
    /\ /\ tasks.phase \in {"enrich", "validate"}
       /\ \A i \in DOMAIN tasks.configs : tasks.configs[i] # None
       => \A i \in DOMAIN tasks.configs :
             \A s \in {"sources", "transformations", "destinations"} :
                IF LoadedAlone(i).value.v[s] = Absent
                THEN tasks.configs[i].v[s] = Absent
                ELSE /\ tasks.configs[i].v[s] # Absent
                     /\ Continued(i, s).list = EnrichedAlone(i, s).list
                     /\ EnrichedAlone(i, s).exc =
                           IF Continued(i, s).pc = "done" THEN "none" ELSE Continued(i, s).pc

\* C23 witness: two transformations tasks are both inside their loops, each
\* having changed its list.
C23_Witness ==
    /\ tasks.phase = "enrich"
    /\ \E j, k \in DOMAIN tasks.enrich :
          /\ j # k
          /\ tasks.enrich[j].pc = "running" /\ tasks.enrich[j].e.rowi > 0
          /\ tasks.enrich[k].pc = "running" /\ tasks.enrich[k].e.rowi > 0

-----------------------------------------------------------------------------
(* Properties of the CSV row generator, checked under SpecCsv. *)

\* C24: the handle is open while the generator is suspended at its yield, it
\* is closed when the generator has ended after the last row, and it is not
\* open when asyncio.run has ended, also when the consumer left its loop
\* with rows remaining.
C24_HandleReleased ==
    /\ gen.pc = "suspended" => gen.handle = "open"
    /\ gen.pc = "finished" => gen.handle = "closed" /\ gen.consumer = "exhausted"
    /\ gen.run = "ended" => gen.handle # "open"

\* C24 witness: the consumer left its loop after the first row of a file of
\* two, asyncio.run has ended and the handle is closed.
C24_Witness ==
    /\ gen.run = "ended" /\ gen.consumer = "abandoned"
    /\ Len(gen.yielded) = 1 /\ NextRow(gen.lines, gen.pos + 1) # 0
    /\ gen.handle = "closed"

\* The lines that hold cells.
RECURSIVE NonBlank(_)
NonBlank(lines) ==
    IF lines = <<>> THEN <<>>
    ELSE (IF Head(lines) = <<>> THEN <<>> ELSE <<Head(lines)>>) \o NonBlank(Tail(lines))

\* The data rows of the file: its lines that hold cells, the header aside.
DataRows == NonBlank(Tail(gen.lines))

\* The rows handed to the consumer are the maps of the data rows in file
\* order, each holding the cells of its line under the column headers, and
\* the iteration ends when every data row has been handed out.
RowsInFileOrder ==
    /\ Len(gen.yielded) <= Len(DataRows)
    /\ \A i \in DOMAIN gen.yielded :
          \A c \in 1..Len(gen.lines[1]) :
             c <= Len(DataRows[i]) =>
                gen.yielded[i].v[c] = Item(PyStr(gen.lines[1][c]), PyStr(DataRows[i][c]))
    /\ gen.consumer = "exhausted" => Len(gen.yielded) = Len(DataRows)

\* C25 (as claimed): the rows handed to the consumer are the maps of the data
\* rows in file order, keyed by the column headers; and when the consumer
\* holds the first row of a file of several rows, the file has not been read
\* to its end.
C25_RowsIncremental ==
    /\ RowsInFileOrder
    /\ Len(gen.yielded) = 1 /\ gen.pc = "suspended" /\ Len(DataRows) > 1 =>
          gen.read < Len(gen.lines)

-----------------------------------------------------------------------------
(* Properties of the grouping, checked under SpecGroup. *)

\* The identity of a merged candidate.
IdentityOf(candidate) == <<candidate.target_schema_name, candidate.pipeline_name>>

\* The positions of the input maps of one logical pipeline.
GroupOf(key) == {i \in DOMAIN grp.configs : KeyOf(grp.configs[i]) = key}

\* The places <<map, position>> at which the maps of a logical pipeline hold
\* an entry of a stage.
Places(key, stage) ==
    UNION {{<<i, n>> : n \in DOMAIN StageOf(grp.configs[i].v, stage)} : i \in GroupOf(key)}

EntryAt(place, stage) == StageOf(grp.configs[place[1]].v, stage)[place[2]]

\* C26: the candidates returned have pairwise distinct identities, which are
\* the identities of the input maps; and every stage list of a candidate
\* holds every entry as often as the maps of its logical pipeline hold it in
\* that stage and nothing else, the stage being absent when none of them
\* holds it.
C26_OneCandidatePerPipeline ==
    grp.called =>
        /\ \A j, k \in DOMAIN grp.out : j # k => IdentityOf(grp.out[j]) # IdentityOf(grp.out[k])
        /\ {IdentityOf(grp.out[j]) : j \in DOMAIN grp.out}
              = {KeyOf(grp.configs[i]) : i \in DOMAIN grp.configs}
        /\ \A j \in DOMAIN grp.out : \A stage \in StageNames :
              LET key == IdentityOf(grp.out[j])
                  merged == StageOf(grp.out[j], stage)
              IN  /\ Len(merged) = Cardinality(Places(key, stage))
                  /\ \A n \in DOMAIN merged :
                        Count(merged, merged[n])
                           = Cardinality({p \in Places(key, stage) :
                                             EntryAt(p, stage) = merged[n]})
                  /\ grp.out[j][stage] = Absent <=>
                        \A i \in GroupOf(key) : grp.configs[i].v[stage] = Absent

\* C26 witness: three maps, the first and the third of one logical pipeline
\* and the second of another, are merged into two candidates, one holding
\* the sources of both its maps.
C26_Witness ==
    /\ grp.called /\ Len(grp.configs) = 3 /\ Len(grp.out) = 2
    /\ KeyOf(grp.configs[1]) = KeyOf(grp.configs[3])
    /\ KeyOf(grp.configs[1]) # KeyOf(grp.configs[2])
    /\ grp.configs[1].v.sources # grp.configs[3].v.sources
    /\ \E j \in DOMAIN grp.out : Len(StageOf(grp.out[j], "sources")) = 2

\* C27 (as claimed): when two or more maps of a logical pipeline hold a
\* version, the candidate holds the version of the last of them.
C27_LastWriterWins ==
    grp.called =>
        \A j \in DOMAIN grp.out :
           LET setters == {i \in GroupOf(IdentityOf(grp.out[j])) :
                              grp.configs[i].v.version # Absent}
               last == CHOOSE i \in setters : \A h \in setters : h <= i
           IN  Cardinality(setters) >= 2 =>
                  grp.out[j].version = grp.configs[last].v.version

-----------------------------------------------------------------------------
(* Properties of the writer, checked under Spec. *)

\* C28: _create_metadata_tables is called at most once in a run; when it has
\* been called, no exception has ended the run, every grouped candidate has
\* been validated and the writer has received the Configurations of the
\* grouped candidates, one each, in their order; and a run an exception has
\* ended has written nothing.
C28_WriterAfterValidation ==
    /\ run.writes <= 1
    /\ run.writes = 1 =>
          /\ run.pc = "done" /\ run.exc = "none"
          /\ run.grouped = _group_pipeline_configs(run.configs)
          /\ Len(run.written) = Len(run.grouped)
          /\ \A i \in DOMAIN run.grouped :
                /\ ConfigurationOf(run.grouped[i]).ok
                /\ run.written[i] = ConfigurationOf(run.grouped[i]).value
    /\ run.pc = "aborted" => run.exc # "none" /\ run.writes = 0 /\ run.written = <<>>

\* C28 witness: the writer has been called with the Configurations of two
\* logical pipelines.
C28_Witness == run.pc = "done" /\ run.writes = 1 /\ Len(run.written) = 2

-----------------------------------------------------------------------------
(* Idempotence of the sanitizer, checked under SpecSanitize. *)

\* C29 (as claimed): what sanitize_empty_objects returns with drop_empty set
\* is returned unchanged when it is sanitized again with drop_empty set.
C29_SanitizeIdempotent ==
    /\ san.op = "sanitize_empty_objects" /\ sobj.drop_empty
    /\ san.out.t \in {"map", "list"}
    => sanitize_empty_objects(san.out, TRUE) = san.out

-----------------------------------------------------------------------------
(* Termination of the CSV expansion, checked under SpecEnrichFair. *)

====
